---- MODULE Spec2Model ----
(***************************************************************************)
(* A model of the baton-kubernetes connector: the binding cache of the     *)
(* Kubernetes connector (pkg/connector/connector.go), the paginated List   *)
(* enumerators of the inventory kinds, the two-phase List of the           *)
(* kube_user / kube_group builders, and the verb normaliser of the Role    *)
(* grant synthesis.                                                        *)
(*                                                                         *)
(* Strings of the program are strings here.  A page token (the JSON of a   *)
(* pagination.Bag) is the sequence of the bag's page states, the current   *)
(* state last; the empty token "" is the empty sequence.  A page state's   *)
(* Token is a cursor record [s, rv, off]: s = "" is the empty string,      *)
(* s = "cont" is an upstream continue cursor (resource version rv, offset  *)
(* off), any other s is that literal string.                               *)
(***************************************************************************)
EXTENDS Integers, Sequences, FiniteSets, TLC

\* ---------------------------------------------------------------- bounds

\* Number of concurrent callers of the binding provider.
NumCallers == 2
\* Upstream list calls that may fail during one run of the cache machine.
MaxUpErrors == 1
\* Times the upstream binding set changes during one run.
MaxUpVersion == 1
\* Objects of one kind upstream, at most.
MaxObjects == 5
\* List calls of one enumerator the host makes, at most.
MaxListCalls == 5
\* Upstream list calls that may fail during one enumeration.
MaxListErrors == 1
\* List calls of one identity builder the host makes, at most.
MaxIdCalls == 4
\* Upstream list calls that may fail while an identity builder is used.
MaxIdErrors == 1
\* Bindings deleted upstream, at most, before an identity builder is used.
MaxIdVersion == 3
\* Verbs of one policy rule, at most.
MaxVerbs == 3
\* Rules of one Role or ClusterRole, at most.
MaxRules == 2
\* Bindings of one kind the binding provider returns for a role, at most.
MaxBindings == 2
\* Grants calls with a malformed resource id before a well-formed one, at most.
MaxMalformed == 1
\* Goroutines that call List on one identity builder at the same time.
NumGoroutines == 2
\* ResourcesPageSize (helpers.go:12) scaled down: items per upstream page.
PageLimit == 2

\* --------------------------------------------------------------- helpers

Min(a, b) == IF a < b THEN a ELSE b

Range(s) == {s[i] : i \in 1..Len(s)}

\* ------------------------------------------------------ upstream fixture

Subj(k, n, ns) == [kind |-> k, name |-> n, namespace |-> ns]

RB(u, ns, k, n, ss) ==
    [uid |-> u, namespace |-> ns, refKind |-> k, refName |-> n, subjects |-> ss]

\* The RoleBindings of the cluster, in upstream list order.
RoleBindingFixture ==
    << RB(1, "a", "Role", "r1", <<Subj("User", "alice", ""), Subj("Group", "devs", "")>>),
       RB(2, "b", "Role", "r1", <<Subj("ServiceAccount", "sys", "")>>),
       RB(3, "a", "ClusterRole", "r1", <<Subj("User", "bob", ""), Subj("User", "alice", "")>>),
       RB(4, "a", "Other", "r1", <<Subj("Group", "ops", "")>>),
       RB(5, "a", "Role", "r2", <<Subj("Group", "devs", ""), Subj("User", "carol", "")>>) >>

\* The ClusterRoleBindings of the cluster (namespace is always empty).
ClusterRoleBindingFixture ==
    << RB(11, "", "ClusterRole", "r1", <<Subj("Group", "admins", ""), Subj("User", "alice", "")>>),
       RB(12, "", "ClusterRole", "r2", <<Subj("ServiceAccount", "sys", ""), Subj("User", "dave", "")>>),
       RB(13, "", "Role", "r1", <<Subj("Group", "system:masters", ""), Subj("Group", "auditors", "")>>) >>

\* The upstream listing at resource version v: each upstream change deletes
\* the oldest binding of both listings.
UpRoleBindings(v) == SubSeq(RoleBindingFixture, v + 1, Len(RoleBindingFixture))

UpClusterRoleBindings(v) ==
    SubSeq(ClusterRoleBindingFixture, v + 1, Len(ClusterRoleBindingFixture))

Namespaces == {"a", "b"}
RoleNames == {"r1", "r2"}

\* ------------------------------------------------------------- variables

VARIABLES
    \* Kubernetes struct (connector.go:76-86)
    roleBindingsCache, clusterRoleBindingsCache, bindingsLoaded, bindingsMutex,
    \* the goroutines calling the binding provider
    callers,
    \* upstream: current resource version, failures injected so far
    upVersion, upErrors,
    \* upstream call counters and the last upstream call (history)
    rbCalls, crbCalls, lastCall,
    \* the last return of a Get... call (history)
    lastReturn,
    \* a caller found the cache loaded at its second check (history)
    recheckHit,
    \* resource versions the committed load enumerated (history)
    loadedSnap,
    \* a paginated List enumerator: its resource type and the number of
    \* objects of that type upstream
    listKind, listTotal,
    \* the host's sync loop: the page token it passes next, whether it has
    \* seen an empty next-page token, the List calls made so far (history),
    \* and the upstream failures injected
    pToken, listDone, listLog, listErrors,
    \* the upstream list calls the enumerator has made (history)
    listUpCalls,
    \* which identity builder is exercised ("User": kubeUserBuilder,
    \* "Group": kubeGroupBuilder), the builders' seen-sets, and the upstream
    \* resource version while the builder is used
    idKind, userCache, groupCache, idVersion,
    \* the host of the identity builder: the token the last call returned,
    \* whether it was the empty one, whether the host has only fed returned
    \* tokens back so far, the calls made (history), injected failures
    idToken, idDone, idClean, idLog, idErrors,
    \* the upstream list calls the identity builder has made (history)
    idUpCalls,
    \* determineGrantVerbs: its argument, its result, whether it has run,
    \* and the grants generated for the rule that lists the verbs
    ruleVerbs, grantVerbs, verbsDone, ruleGrants,
    \* mapSubjectToPrincipalID: its arguments and its result
    subject, defaultNamespace, principalID,
    \* a Grants call of a Role or ClusterRole builder: its inputs (the
    \* resource, the rules of the role upstream, what the binding provider
    \* returns) and its return
    grantsCall, grantsReturn,
    \* the upstream calls the last Grants call made, in order, and the number
    \* of Grants calls that failed on their resource id before it (history)
    grantsEffects,
    \* mapKubeResourceToBatonType: its arguments and its result, with the
    \* grants generated for a rule on that (apiGroup, resource) pair
    mapCall, mapReturn,
    \* concurrent List calls on one identity builder: its kind, its seen-set
    \* (userCache / groupCache), the RWMutex guarding it (userCacheLock /
    \* groupCacheLock) and each goroutine's position in its List call
    procKind, procCache, procCacheLock, goroutines

cacheVars == <<roleBindingsCache, clusterRoleBindingsCache, bindingsLoaded,
               bindingsMutex, callers, upVersion, upErrors, rbCalls, crbCalls,
               lastCall, lastReturn, recheckHit, loadedSnap>>

listVars == <<listKind, listTotal, pToken, listDone, listLog, listErrors, listUpCalls>>

identVars == <<idKind, userCache, groupCache, idVersion, idToken, idDone, idClean, idLog,
               idErrors, idUpCalls>>

verbVars == <<ruleVerbs, grantVerbs, verbsDone, ruleGrants>>

subjectVars == <<subject, defaultNamespace, principalID>>

grantVars == <<grantsCall, grantsReturn, grantsEffects>>

mapVars == <<mapCall, mapReturn>>

processVars == <<procKind, procCache, procCacheLock, goroutines>>

otherThanCache == <<listVars, identVars, verbVars, subjectVars, grantVars, mapVars, processVars>>
otherThanList == <<cacheVars, identVars, verbVars, subjectVars, grantVars, mapVars, processVars>>
otherThanIdent == <<cacheVars, listVars, verbVars, subjectVars, grantVars, mapVars, processVars>>
otherThanVerbs == <<cacheVars, listVars, identVars, subjectVars, grantVars, mapVars, processVars>>
otherThanSubject == <<cacheVars, listVars, identVars, verbVars, grantVars, mapVars, processVars>>
otherThanGrants == <<cacheVars, listVars, identVars, verbVars, subjectVars, mapVars, processVars>>
otherThanMap == <<cacheVars, listVars, identVars, verbVars, subjectVars, grantVars, processVars>>
otherThanProcess == <<cacheVars, listVars, identVars, verbVars, subjectVars, grantVars, mapVars>>

vars == <<cacheVars, listVars, identVars, verbVars, subjectVars, grantVars, mapVars, processVars>>

Callers == 1..NumCallers

Goroutines == 1..NumGoroutines

\* A goroutine that has not entered List: the names it has yet to hand to
\* processUser / processGroup, whether its upstream list fails, its local rv
\* and what List returned.
IdleGoroutine ==
    [pc |-> "idle", todo |-> <<>>, fails |-> FALSE, rv |-> <<>>, returned |-> <<>>]

Obj(ns, n) == [namespace |-> ns, name |-> n]

\* The objects of an inventory kind, in upstream list order.
ObjectFixture ==
    << Obj("a", "o1"), Obj("a", "o2"), Obj("b", "o1"), Obj("b", "o3"),
       Obj("a", "o4"), Obj("b", "o5"), Obj("a", "o6"), Obj("b", "o7") >>

\* The upstream listing of a kind at resource version v.
Listing(kind, v) ==
    IF kind = "rolebindings" THEN UpRoleBindings(v)
    ELSE IF kind = "clusterrolebindings" THEN UpClusterRoleBindings(v)
    ELSE SubSeq(ObjectFixture, 1, listTotal)

\* --------------------------------------------------------------- cursors

Cursor(str, v, o) == [s |-> str, rv |-> v, off |-> o]

\* The empty string as a continue token.
NoCursor == Cursor("", 0, 0)

Lit(str) == Cursor(str, 0, 0)

\* One upstream List call with ListOptions{Limit, Continue}: the first page
\* is served at the current resource version, a continued page at the
\* version the cursor carries.  Continue is non-empty only when items remain.
UpList(kind, current, continue) ==
    LET v   == IF continue.s = "cont" THEN continue.rv ELSE current
        o   == IF continue.s = "cont" THEN continue.off ELSE 0
        all == Listing(kind, v)
        hi  == Min(o + PageLimit, Len(all))
    IN  [items    |-> SubSeq(all, o + 1, hi),
         continue |-> IF hi < Len(all) THEN Cursor("cont", v, hi) ELSE NoCursor,
         rv       |-> v]

\* A cursor the API server accepts: the empty one or one it handed out.
ValidCursor(c) == c.s \in {"", "cont"}

\* Pages a full walk of a listing takes.
NumPages(all) == IF Len(all) = 0 THEN 1 ELSE (Len(all) + PageLimit - 1) \div PageLimit


\* ------------------------------------------------- binding cache: queries

\* Mutant of RoleMatch: the namespace comparison is dropped.
RoleMatchAnyNamespace(binding, namespace, roleName) ==
    /\ binding.refKind = "Role"
    /\ binding.refName = roleName

\* A binding references Role (ns, name): connector.go:318.
RoleMatch(binding, namespace, roleName) ==
    /\ binding.namespace = namespace
    /\ binding.refKind = "Role"
    /\ binding.refName = roleName

\* A binding references ClusterRole name: connector.go:339 and :346.
ClusterRoleMatch(binding, clusterRoleName) ==
    /\ binding.refKind = "ClusterRole"
    /\ binding.refName = clusterRoleName

\* The scan loops of connector.go:316-321, 337-349: append in cache order.
RECURSIVE ScanRole(_, _, _)
ScanRole(cache, namespace, roleName) ==
    IF cache = <<>> THEN <<>>
    ELSE LET rest == ScanRole(Tail(cache), namespace, roleName)
         IN  IF RoleMatch(Head(cache), namespace, roleName)
             THEN <<Head(cache)>> \o rest ELSE rest

RECURSIVE ScanClusterRole(_, _)
ScanClusterRole(cache, clusterRoleName) ==
    IF cache = <<>> THEN <<>>
    ELSE LET rest == ScanClusterRole(Tail(cache), clusterRoleName)
         IN  IF ClusterRoleMatch(Head(cache), clusterRoleName)
             THEN <<Head(cache)>> \o rest ELSE rest

\* ------------------------------------------------ binding cache: machine

\* A goroutine's position in Get... / loadBindingsCaches and its locals.
IdleCaller ==
    [pc |-> "idle", allRoleBindings |-> <<>>, allClusterRoleBindings |-> <<>>,
     continueToken |-> NoCursor, snapRB |-> 0]

NoCall == [n |-> 0, kind |-> "", continue |-> NoCursor, ok |-> TRUE]

NoReturn ==
    [err |-> FALSE, op |-> "", namespace |-> "", name |-> "",
     roleBindings |-> <<>>, clusterRoleBindings |-> <<>>]

CacheInit ==
    /\ roleBindingsCache = <<>>
    /\ clusterRoleBindingsCache = <<>>
    /\ bindingsLoaded = FALSE
    /\ bindingsMutex = [w |-> FALSE, r |-> 0]
    /\ callers = [c \in Callers |-> IdleCaller]
    /\ upVersion = 0
    /\ upErrors = 0
    /\ rbCalls = 0
    /\ crbCalls = 0
    /\ lastCall = NoCall
    /\ lastReturn = NoReturn
    /\ recheckHit = FALSE
    /\ loadedSnap = [rb |-> 0, crb |-> 0]

\* No enumerator is running.
ListIdle ==
    /\ listKind = "node"
    /\ listTotal = 0
    /\ pToken = <<>>
    /\ listDone = FALSE
    /\ listLog = <<>>
    /\ listErrors = 0
    /\ listUpCalls = 0

\* No identity builder has been called.
IdentIdle ==
    /\ idKind = "User"
    /\ userCache = {}
    /\ groupCache = {}
    /\ idVersion = 0
    /\ idToken = <<>>
    /\ idDone = FALSE
    /\ idClean = TRUE
    /\ idLog = <<>>
    /\ idErrors = 0
    /\ idUpCalls = 0

\* determineGrantVerbs has not been called.
VerbsIdle ==
    /\ ruleVerbs = <<>>
    /\ grantVerbs = <<>>
    /\ verbsDone = FALSE
    /\ ruleGrants = <<>>

\* The result before mapSubjectToPrincipalID has returned.
NoPrincipalID == [err |-> "not called", type |-> "", id |-> ""]

\* mapSubjectToPrincipalID has not been called.
SubjectIdle ==
    /\ subject = [kind |-> "", name |-> "", namespace |-> ""]
    /\ defaultNamespace = ""
    /\ principalID = NoPrincipalID

NoGrantsCall ==
    [builder |-> "", resource |-> [type |-> "", id |-> ""], rules |-> <<>>,
     roleBindings |-> <<>>, clusterRoleBindings |-> <<>>, fails |-> ""]

NoGrantsReturn == [err |-> FALSE, grants |-> <<>>]

\* No Grants call has been made.
GrantsIdle ==
    /\ grantsCall = NoGrantsCall
    /\ grantsReturn = NoGrantsReturn
    /\ grantsEffects = [upstream |-> <<>>, earlier |-> 0]

NoMapCall == [done |-> FALSE, apiGroup |-> "", resource |-> ""]

NoMapReturn == [type |-> "", grants |-> <<>>]

\* mapKubeResourceToBatonType has not been called.
MapIdle ==
    /\ mapCall = NoMapCall
    /\ mapReturn = NoMapReturn

\* No List call runs concurrently with another.
ProcessIdle ==
    /\ procKind = "User"
    /\ procCache = {}
    /\ procCacheLock = [w |-> FALSE, r |-> 0]
    /\ goroutines = [g \in Goroutines |-> IdleGoroutine]

Init == CacheInit /\ ListIdle /\ IdentIdle /\ VerbsIdle /\ SubjectIdle /\ GrantsIdle /\ MapIdle /\ ProcessIdle

\* GetMatchingRoleBindings or GetMatchingBindingsForClusterRole is entered and
\* calls loadBindingsCaches: connector.go:306-308, 327-329.  The arguments
\* are first read by the scan, and are drawn there.
Call(c) ==
    /\ callers[c].pc = "idle"
    /\ callers' = [callers EXCEPT ![c].pc = "check"]
    /\ UNCHANGED <<roleBindingsCache, clusterRoleBindingsCache, bindingsLoaded,
                   bindingsMutex, upVersion, upErrors, rbCalls, crbCalls,
                   lastCall, lastReturn, loadedSnap, recheckHit>>
    /\ UNCHANGED otherThanCache

\* loadBindingsCaches, the read-locked check: connector.go:224-229.
FirstCheck(c) ==
    /\ callers[c].pc = "check"
    /\ ~bindingsMutex.w
    /\ callers' = [callers EXCEPT
           ![c].pc = IF bindingsLoaded THEN "rlock" ELSE "lock"]
    /\ UNCHANGED <<roleBindingsCache, clusterRoleBindingsCache, bindingsLoaded,
                   bindingsMutex, upVersion, upErrors, rbCalls, crbCalls,
                   lastCall, lastReturn, loadedSnap, recheckHit>>
    /\ UNCHANGED otherThanCache

\* Mutant of Recheck: no second check, every waiter loads again.
RecheckSkipped(loaded) == FALSE

\* The second check, under the write lock: connector.go:236-238.
Recheck(loaded) == loaded

\* Mutant of LockAndRecheck: the lock is taken without waiting for the
\* writer or the readers holding it.
LockAndRecheckUnlocked(c) ==
    /\ callers[c].pc = "lock"
    /\ IF Recheck(bindingsLoaded)
       THEN /\ callers' = [callers EXCEPT ![c].pc = "rlock"]
            /\ recheckHit' = TRUE
            /\ UNCHANGED bindingsMutex
       ELSE /\ callers' = [callers EXCEPT ![c].pc = "fetchRB",
                                          ![c].allRoleBindings = <<>>,
                                          ![c].continueToken = NoCursor]
            /\ bindingsMutex' = [bindingsMutex EXCEPT !.w = TRUE]
            /\ UNCHANGED recheckHit
    /\ UNCHANGED <<roleBindingsCache, clusterRoleBindingsCache, bindingsLoaded,
                   upVersion, upErrors, rbCalls, crbCalls, lastCall, lastReturn,
                   loadedSnap>>
    /\ UNCHANGED otherThanCache

\* The write lock and the second check: connector.go:232-245.  When the
\* cache is loaded the deferred Unlock runs at once.
LockAndRecheck(c) ==
    /\ callers[c].pc = "lock"
    /\ ~bindingsMutex.w
    /\ bindingsMutex.r = 0
    /\ IF Recheck(bindingsLoaded)
       THEN /\ callers' = [callers EXCEPT ![c].pc = "rlock"]
            /\ recheckHit' = TRUE
            /\ UNCHANGED bindingsMutex
       ELSE /\ callers' = [callers EXCEPT ![c].pc = "fetchRB",
                                          ![c].allRoleBindings = <<>>,
                                          ![c].continueToken = NoCursor]
            /\ bindingsMutex' = [bindingsMutex EXCEPT !.w = TRUE]
            /\ UNCHANGED recheckHit
    /\ UNCHANGED <<roleBindingsCache, clusterRoleBindingsCache, bindingsLoaded,
                   upVersion, upErrors, rbCalls, crbCalls, lastCall, lastReturn,
                   loadedSnap>>
    /\ UNCHANGED otherThanCache

Recorded(c, kind, ok) ==
    [n |-> lastCall.n + 1, kind |-> kind,
     continue |-> callers[c].continueToken, ok |-> ok]

\* One page of RoleBindings: connector.go:247-271.
FetchRoleBindings(c) ==
    /\ callers[c].pc = "fetchRB"
    /\ LET bindings == UpList("rolebindings", upVersion, callers[c].continueToken)
           all == callers[c].allRoleBindings \o bindings.items
       IN  callers' = [callers EXCEPT
               ![c].allRoleBindings = all,
               ![c].snapRB = bindings.rv,
               ![c].pc = IF bindings.continue = NoCursor THEN "fetchCRB" ELSE "fetchRB",
               ![c].continueToken = bindings.continue]
    /\ rbCalls' = rbCalls + 1
    /\ lastCall' = Recorded(c, "rolebindings", TRUE)
    /\ UNCHANGED <<roleBindingsCache, clusterRoleBindingsCache, bindingsLoaded,
                   bindingsMutex, upVersion, upErrors, crbCalls, lastReturn,
                   loadedSnap, recheckHit>>
    /\ UNCHANGED otherThanCache

\* Mutant of Commit: the flag is set but one slice is not stored.
CommitWithoutClusterRoleBindings(rb, crb) == [loaded |-> TRUE, rb |-> rb, crb |-> <<>>]

\* What the last successful page stores: connector.go:295-297.
Commit(rb, crb) == [loaded |-> TRUE, rb |-> rb, crb |-> crb]

\* One page of ClusterRoleBindings, and after the last one the commit and
\* the deferred Unlock: connector.go:273-303.
FetchClusterRoleBindings(c) ==
    /\ callers[c].pc = "fetchCRB"
    /\ LET bindings == UpList("clusterrolebindings", upVersion, callers[c].continueToken)
           all == callers[c].allClusterRoleBindings \o bindings.items
           last == bindings.continue = NoCursor
           done == Commit(callers[c].allRoleBindings, all)
       IN  /\ callers' = [callers EXCEPT
                 ![c].allClusterRoleBindings = IF last THEN <<>> ELSE all,
                 ![c].allRoleBindings = IF last THEN <<>> ELSE @,
                 ![c].snapRB = IF last THEN 0 ELSE @,
                 ![c].pc = IF last THEN "rlock" ELSE "fetchCRB",
                 ![c].continueToken = bindings.continue]
           /\ IF last
              THEN /\ roleBindingsCache' = done.rb
                   /\ clusterRoleBindingsCache' = done.crb
                   /\ bindingsLoaded' = done.loaded
                   /\ bindingsMutex' = [bindingsMutex EXCEPT !.w = FALSE]
                   /\ loadedSnap' = [rb |-> callers[c].snapRB, crb |-> bindings.rv]
              ELSE UNCHANGED <<roleBindingsCache, clusterRoleBindingsCache,
                               bindingsLoaded, bindingsMutex, loadedSnap>>
    /\ crbCalls' = crbCalls + 1
    /\ lastCall' = Recorded(c, "clusterrolebindings", TRUE)
    /\ UNCHANGED <<upVersion, upErrors, rbCalls, lastReturn, recheckHit>>
    /\ UNCHANGED otherThanCache

\* Mutant of AfterFailure: the pages fetched so far are published.
AfterFailurePublishingPartial(loaded, rb, crb, partialRB, partialCRB) ==
    [loaded |-> loaded, rb |-> partialRB, crb |-> partialCRB]

\* What a failed page fetch leaves in the shared cache: connector.go:254-256,
\* 280-282 return before any field of k is assigned.
AfterFailure(loaded, rb, crb, partialRB, partialCRB) ==
    [loaded |-> loaded, rb |-> rb, crb |-> crb]

\* A page fetch fails (API error, cancelled context): the load returns the
\* error, the deferred Unlock runs, and Get... returns the wrapped error
\* (connector.go:308-310, 329-331).
FetchFails(c) ==
    /\ callers[c].pc \in {"fetchRB", "fetchCRB"}
    /\ upErrors < MaxUpErrors
    /\ upErrors' = upErrors + 1
    /\ LET after == AfterFailure(bindingsLoaded, roleBindingsCache,
                                 clusterRoleBindingsCache,
                                 callers[c].allRoleBindings,
                                 callers[c].allClusterRoleBindings)
       IN  /\ bindingsLoaded' = after.loaded
           /\ roleBindingsCache' = after.rb
           /\ clusterRoleBindingsCache' = after.crb
    /\ lastCall' = Recorded(c, IF callers[c].pc = "fetchRB" THEN "rolebindings"
                               ELSE "clusterrolebindings", FALSE)
    /\ callers' = [callers EXCEPT ![c] = IdleCaller]
    /\ lastReturn' = [NoReturn EXCEPT !.err = TRUE]
    /\ bindingsMutex' = [bindingsMutex EXCEPT !.w = FALSE]
    /\ UNCHANGED <<upVersion, rbCalls, crbCalls, loadedSnap, recheckHit>>
    /\ UNCHANGED otherThanCache

\* The query takes the read lock: connector.go:313, 334.
QueryRLock(c) ==
    /\ callers[c].pc = "rlock"
    /\ ~bindingsMutex.w
    /\ bindingsMutex' = [bindingsMutex EXCEPT !.r = @ + 1]
    /\ callers' = [callers EXCEPT ![c].pc = "scan"]
    /\ UNCHANGED <<roleBindingsCache, clusterRoleBindingsCache, bindingsLoaded,
                   upVersion, upErrors, rbCalls, crbCalls, lastCall, lastReturn,
                   loadedSnap, recheckHit>>
    /\ UNCHANGED otherThanCache

\* GetMatchingRoleBindings, the scan, the deferred RUnlock and the return:
\* connector.go:316-323.
ScanForRole(c) ==
    /\ callers[c].pc = "scan"
    /\ bindingsMutex' = [bindingsMutex EXCEPT !.r = @ - 1]
    /\ \E ns \in Namespaces, n \in RoleNames :
         lastReturn' = [err |-> FALSE,
                        op |-> "role", namespace |-> ns, name |-> n,
                        roleBindings |-> ScanRole(roleBindingsCache, ns, n),
                        clusterRoleBindings |-> <<>>]
    /\ callers' = [callers EXCEPT ![c] = IdleCaller]
    /\ UNCHANGED <<roleBindingsCache, clusterRoleBindingsCache, bindingsLoaded,
                   upVersion, upErrors, rbCalls, crbCalls, lastCall, loadedSnap, recheckHit>>
    /\ UNCHANGED otherThanCache

\* GetMatchingBindingsForClusterRole, the two scans, the deferred RUnlock and
\* the return: connector.go:337-351.
ScanForClusterRole(c) ==
    /\ callers[c].pc = "scan"
    /\ bindingsMutex' = [bindingsMutex EXCEPT !.r = @ - 1]
    /\ \E n \in RoleNames :
         lastReturn' = [err |-> FALSE,
                        op |-> "clusterrole", namespace |-> "", name |-> n,
                        roleBindings |-> ScanClusterRole(roleBindingsCache, n),
                        clusterRoleBindings |->
                            ScanClusterRole(clusterRoleBindingsCache, n)]
    /\ callers' = [callers EXCEPT ![c] = IdleCaller]
    /\ UNCHANGED <<roleBindingsCache, clusterRoleBindingsCache, bindingsLoaded,
                   upVersion, upErrors, rbCalls, crbCalls, lastCall, loadedSnap, recheckHit>>
    /\ UNCHANGED otherThanCache

\* Bindings change upstream.
UpstreamChange ==
    /\ upVersion < MaxUpVersion
    /\ upVersion' = upVersion + 1
    /\ UNCHANGED <<roleBindingsCache, clusterRoleBindingsCache, bindingsLoaded,
                   bindingsMutex, callers, upErrors, rbCalls, crbCalls,
                   lastCall, lastReturn, loadedSnap, recheckHit>>
    /\ UNCHANGED otherThanCache

Next ==
    \/ \E c \in Callers : Call(c)
    \/ \E c \in Callers : FirstCheck(c)
    \/ \E c \in Callers : LockAndRecheck(c)
    \/ \E c \in Callers : FetchRoleBindings(c)
    \/ \E c \in Callers : FetchClusterRoleBindings(c)
    \/ \E c \in Callers : FetchFails(c)
    \/ \E c \in Callers : QueryRLock(c)
    \/ \E c \in Callers : ScanForRole(c)
    \/ \E c \in Callers : ScanForClusterRole(c)
    \/ UpstreamChange

Spec == Init /\ [][Next]_vars

\* ------------------------------------------------- binding cache: claims

\* The listings the committed load enumerated.
EnumeratedRoleBindings == UpRoleBindings(loadedSnap.rb)
EnumeratedClusterRoleBindings == UpClusterRoleBindings(loadedSnap.crb)

Loading(c) == callers[c].pc \in {"fetchRB", "fetchCRB"}

\* The bindings of a listing that reference Role (ns, n) / ClusterRole n.
RoleBindingsFor(all, ns, n) ==
    LET Test(b) == b.namespace = ns /\ b.refKind = "Role" /\ b.refName = n
    IN  SelectSeq(all, Test)

ClusterRoleBindingsFor(all, n) ==
    LET Test(b) == b.refKind = "ClusterRole" /\ b.refName = n
    IN  SelectSeq(all, Test)

Returned == lastReturn.op # ""

\* C1: with no upstream failure, however the callers interleave, the
\* RoleBindings listing and the ClusterRoleBindings listing are each walked
\* exactly once (one upstream call per page), at most one caller loads, and
\* every returned result is the query's answer over the fully loaded cache.
C1_SingleLoad ==
    upErrors = 0 =>
      /\ Cardinality({c \in Callers : Loading(c)}) <= 1
      /\ ~bindingsLoaded =>
           /\ ~Returned
           /\ (\A c \in Callers : ~Loading(c)) => rbCalls = 0 /\ crbCalls = 0
           /\ rbCalls <= NumPages(UpRoleBindings(0))
           /\ crbCalls <= NumPages(UpClusterRoleBindings(0))
      /\ bindingsLoaded =>
           /\ rbCalls = NumPages(EnumeratedRoleBindings)
           /\ crbCalls = NumPages(EnumeratedClusterRoleBindings)
      /\ Returned =>
           /\ ~lastReturn.err
           /\ lastReturn.op = "role" =>
                lastReturn.roleBindings =
                    RoleBindingsFor(EnumeratedRoleBindings, lastReturn.namespace,
                                    lastReturn.name)
           /\ lastReturn.op = "clusterrole" =>
                /\ lastReturn.roleBindings =
                     ClusterRoleBindingsFor(EnumeratedRoleBindings, lastReturn.name)
                /\ lastReturn.clusterRoleBindings =
                     ClusterRoleBindingsFor(EnumeratedClusterRoleBindings,
                                            lastReturn.name)

\* C1 witness: a second caller passed the first check before the load and
\* found the cache loaded at its second check; all calls have returned.
C1_Witness ==
    /\ upErrors = 0
    /\ recheckHit
    /\ bindingsLoaded
    /\ Returned
    /\ \A c \in Callers : callers[c].pc = "idle"

\* C2: a failed page fetch (RoleBindings or ClusterRoleBindings page) makes
\* the call return an error with the lock released, leaves bindingsLoaded
\* false and both slices as they were, and the upstream call that follows a
\* failed one is a RoleBindings list with an empty continue token.
C2_FailedLoadLeavesCacheEmpty ==
    [][ /\ (lastCall'.n # lastCall.n /\ ~lastCall'.ok) =>
             /\ lastReturn'.err
             /\ ~bindingsLoaded /\ ~bindingsLoaded'
             /\ roleBindingsCache' = roleBindingsCache
             /\ clusterRoleBindingsCache' = clusterRoleBindingsCache
             /\ roleBindingsCache' = <<>> /\ clusterRoleBindingsCache' = <<>>
             /\ ~bindingsMutex'.w
             /\ \A c \in Callers : Loading(c) => callers'[c] = IdleCaller
        /\ (lastCall'.n # lastCall.n /\ ~lastCall.ok) =>
             /\ lastCall'.kind = "rolebindings"
             /\ lastCall'.continue = NoCursor
      ]_vars

\* C2 witness: a ClusterRoleBindings page failed after the RoleBindings walk.
C2_Witness ==
    /\ ~lastCall.ok
    /\ lastCall.kind = "clusterrolebindings"
    /\ lastCall.continue # NoCursor
    /\ lastReturn.err
    /\ ~bindingsLoaded

\* C3: a loaded cache holds the whole enumerated listings, and once loaded
\* the flag stays set, the slices never change and no upstream binding list
\* call is made again.
C3_LoadedCacheIsCompleteAndFrozen ==
    /\ [](bindingsLoaded =>
            /\ roleBindingsCache = EnumeratedRoleBindings
            /\ clusterRoleBindingsCache = EnumeratedClusterRoleBindings)
    /\ [][bindingsLoaded =>
            /\ bindingsLoaded'
            /\ roleBindingsCache' = roleBindingsCache
            /\ clusterRoleBindingsCache' = clusterRoleBindingsCache
            /\ rbCalls' = rbCalls /\ crbCalls' = crbCalls
            /\ lastCall' = lastCall]_vars

\* C3 witness: the cache is loaded, the upstream bindings have changed since,
\* and a query is scanning the cache.
C3_Witness ==
    /\ bindingsLoaded
    /\ upVersion > loadedSnap.rb /\ upVersion > loadedSnap.crb
    /\ upErrors > 0
    /\ Returned
    /\ \E c \in Callers : callers[c].pc = "scan"

\* C9: a returned Role query holds exactly the cached RoleBindings with the
\* queried namespace, roleRef.kind "Role" and the queried name, and a returned
\* ClusterRole query exactly the cached RoleBindings and ClusterRoleBindings
\* with roleRef.kind "ClusterRole" and the queried name, both in cache order;
\* no result holds a binding of another roleRef.kind, and no Role result a
\* RoleBinding of another namespace.
C9_QueriesSelectByRoleRef ==
    Returned /\ ~lastReturn.err =>
      /\ bindingsLoaded
      /\ lastReturn.op = "role" =>
           /\ lastReturn.roleBindings =
                RoleBindingsFor(roleBindingsCache, lastReturn.namespace, lastReturn.name)
           /\ lastReturn.clusterRoleBindings = <<>>
           /\ \A b \in Range(lastReturn.roleBindings) :
                b.namespace = lastReturn.namespace /\ b.refKind = "Role"
      /\ lastReturn.op = "clusterrole" =>
           /\ lastReturn.roleBindings =
                ClusterRoleBindingsFor(roleBindingsCache, lastReturn.name)
           /\ lastReturn.clusterRoleBindings =
                ClusterRoleBindingsFor(clusterRoleBindingsCache, lastReturn.name)
           /\ \A b \in Range(lastReturn.roleBindings)
                       \cup Range(lastReturn.clusterRoleBindings) :
                b.refKind = "ClusterRole" /\ b.refName = lastReturn.name

\* C9 witness: a Role query returned bindings while the cache also holds a
\* binding of the same role name in another namespace and one of another
\* roleRef.kind.
C9_Witness ==
    /\ Returned /\ lastReturn.op = "role"
    /\ lastReturn.roleBindings # <<>>
    /\ \E b \in Range(roleBindingsCache) :
         b.refName = lastReturn.name /\ b.refKind = "Role"
         /\ b.namespace # lastReturn.namespace
    /\ \E b \in Range(roleBindingsCache) :
         b.refName = lastReturn.name /\ b.refKind \notin {"Role", "ClusterRole"}

\* ------------------------------------------------------- pagination bag

\* pagination.Bag: the stacked page states and the current one (<<>> is nil).
EmptyBag == [states |-> <<>>, currentState |-> <<>>]

\* Bag.Unmarshal (helpers.go:17): "" resets the bag, any other token restores
\* the states and the current state it encodes.
BagUnmarshal(token) ==
    IF token = <<>> THEN EmptyBag
    ELSE [states |-> SubSeq(token, 1, Len(token) - 1),
          currentState |-> <<token[Len(token)]>>]

\* Bag.Push (helpers.go:27-29): the pushed state becomes the current one, the
\* former current state is kept on the stack.
BagPush(bag, state) ==
    [states |-> bag.states \o bag.currentState, currentState |-> <<state>>]

\* Bag.Marshal (helpers.go:32): "" when there is no current state.
BagMarshal(bag) ==
    IF bag.currentState = <<>> THEN <<>> ELSE bag.states \o bag.currentState

\* Bag.PageToken: the Token of the current state, "" when there is none.
BagPageToken(bag) ==
    IF bag.currentState = <<>> THEN NoCursor ELSE bag.currentState[1]

\* parsePageToken: helpers.go:15-22.
ParsePageToken(token) == BagUnmarshal(token)

\* handleKubePagination: helpers.go:25-38.
HandleKubePagination(continue, bag) ==
    BagMarshal(IF continue # NoCursor THEN BagPush(bag, continue) ELSE bag)

\* ------------------------------------------------- paginated enumerators

\* The kinds whose List emits the wildcard object.
WildcardKinds ==
    {"namespace", "pod", "secret", "configmap", "node", "deployment",
     "statefulset", "daemonset", "service_account"}

\* The kinds listed with the same pagination and no wildcard object.
PlainKinds == {"role", "cluster_role"}

ListKinds == WildcardKinds \cup PlainKinds

ClusterScoped(kind) == kind \in {"namespace", "node", "cluster_role"}

\* nodeResource, podResource, ...: the resource id is the name of a
\* cluster-scoped object and namespace/name of a namespaced one.
ResourceOf(kind, obj) ==
    [type |-> kind,
     id   |-> IF ClusterScoped(kind) THEN obj.name
              ELSE obj.namespace \o "/" \o obj.name]

RECURSIVE ResourcesOf(_, _)
ResourcesOf(kind, items) ==
    IF items = <<>> THEN <<>>
    ELSE <<ResourceOf(kind, Head(items))>> \o ResourcesOf(kind, Tail(items))

\* generateWildcardResource: common.go:98-169.
generateWildcardResource(kind) == [type |-> kind, id |-> "*"]

\* Mutant of FirstPage: every page counts as the first.
FirstPageAlways(bag) == TRUE

\* The guard of the wildcard emission (node.go:44): bag.PageToken() == "".
FirstPage(bag) == BagPageToken(bag) = NoCursor

\* One call of List(ctx, nil, pToken) of the enumerator of listKind that the
\* upstream serves (node.go:31-85; the other kinds' List are the same text,
\* Role and ClusterRole without the wildcard block), and the host's sync
\* loop feeding the returned token back until it is empty.
ListPage ==
    /\ ~listDone
    /\ Len(listLog) < MaxListCalls
    /\ LET bag  == ParsePageToken(pToken)
           rv0  == IF listKind \in WildcardKinds /\ FirstPage(bag)
                   THEN <<generateWildcardResource(listKind)>> ELSE <<>>
           opts == BagPageToken(bag)
           resp == UpList(listKind, 0, opts)
           rv   == rv0 \o ResourcesOf(listKind, resp.items)
           nextPageToken == HandleKubePagination(resp.continue, bag)
       IN  /\ listLog' = Append(listLog,
                  [token |-> pToken, sent |-> opts, err |-> FALSE,
                   objects |-> rv, continue |-> resp.continue,
                   next |-> nextPageToken])
           /\ pToken' = nextPageToken
           /\ listDone' = (nextPageToken = <<>>)
    /\ listUpCalls' = listUpCalls + 1
    /\ UNCHANGED <<listKind, listTotal, listErrors>>
    /\ UNCHANGED otherThanList

\* Mutant of FailedListAttempts: the failed upstream list is tried again
\* before List returns.
FailedListAttemptsWithRetry(calls) == calls + 2

\* The upstream list calls made so far once a List call whose upstream list
\* fails has returned: the error is returned at once, after the one call
\* (node.go:62-64, secret.go:73-76).
FailedListAttempts(calls) == calls + 1

\* The same call when the upstream list fails (node.go:62-64): nil, "" and
\* the error are returned; the host calls again with the token it holds.
ListPageFails ==
    /\ ~listDone
    /\ Len(listLog) < MaxListCalls
    /\ listErrors < MaxListErrors
    /\ listErrors' = listErrors + 1
    /\ listLog' = Append(listLog,
           [token |-> pToken, sent |-> BagPageToken(ParsePageToken(pToken)),
            err |-> TRUE, objects |-> <<>>, continue |-> NoCursor,
            next |-> <<>>])
    /\ listUpCalls' = FailedListAttempts(listUpCalls)
    /\ UNCHANGED <<listKind, listTotal, pToken, listDone>>
    /\ UNCHANGED otherThanList

\* An enumerator of any kind over an upstream of any size.
InitList ==
    /\ CacheInit
    /\ ProcessIdle
    /\ MapIdle
    /\ IdentIdle
    /\ VerbsIdle
    /\ SubjectIdle
    /\ GrantsIdle
    /\ listKind \in ListKinds
    /\ listTotal \in 0..MaxObjects
    /\ pToken = <<>>
    /\ listDone = FALSE
    /\ listLog = <<>>
    /\ listErrors = 0
    /\ listUpCalls = 0

NextList == ListPage \/ ListPageFails

SpecList == InitList /\ [][NextList]_vars

\* ------------------------------------------- paginated enumerators: claims

\* The calls that returned without error, in call order.
Succeeded == SelectSeq(listLog, LAMBDA e : ~e.err)

\* Upstream pages of the enumerated listing.
ListPages == NumPages(Listing(listKind, 0))

\* Occurrences of the wildcard object in one result.
Wildcards(objects) == Cardinality({i \in 1..Len(objects) : objects[i].id = "*"})

\* C5 (as claimed, refuted by the model): every List call that returns
\* without error returns a non-empty next-page token carrying the upstream
\* continue cursor when the upstream response has one, and the empty token
\* when it has none.
C5_NextTokenIffContinue ==
    \A i \in 1..Len(listLog) :
        ~listLog[i].err =>
          /\ listLog[i].continue # NoCursor =>
               /\ listLog[i].next # <<>>
               /\ BagPageToken(BagUnmarshal(listLog[i].next)) = listLog[i].continue
          /\ listLog[i].continue = NoCursor => listLog[i].next = <<>>

\* C6 (as claimed, refuted by the model): the i-th successful List call of
\* an enumeration fetches upstream page i, there are never more successful
\* calls than upstream pages, and the enumeration has ended with an empty
\* token once as many calls succeeded as the listing has pages.
C6_TerminatesAfterNPages ==
    /\ Len(Succeeded) <= ListPages
    /\ \A i \in 1..Len(Succeeded) :
          Succeeded[i].sent =
              (IF i = 1 THEN NoCursor ELSE Cursor("cont", 0, (i - 1) * PageLimit))
    /\ Len(Succeeded) = ListPages => listDone

\* C8: for a kind that emits a wildcard object, the call made with the empty
\* token returns the object with id "*" first and exactly once, no call made
\* with a non-empty token returns it, and over the whole enumeration it is
\* returned by at most one call.
C8_WildcardOnceOnFirstPage ==
    listKind \in WildcardKinds =>
      /\ \A i \in 1..Len(Succeeded) :
            IF Succeeded[i].token = <<>>
            THEN /\ Succeeded[i].objects # <<>>
                 /\ Succeeded[i].objects[1] = [type |-> listKind, id |-> "*"]
                 /\ Wildcards(Succeeded[i].objects) = 1
            ELSE Wildcards(Succeeded[i].objects) = 0
      /\ Cardinality({i \in 1..Len(Succeeded) :
                        Wildcards(Succeeded[i].objects) > 0}) <= 1

\* C8 witness: a wildcard kind with objects on several pages: the first page
\* and two pages reached with a non-empty token have been returned.
C8_Witness ==
    /\ listKind \in WildcardKinds
    /\ Len(Succeeded) >= 3
    /\ Succeeded[1].token = <<>>
    /\ Len(Succeeded[1].objects) = PageLimit + 1
    /\ Succeeded[2].token # <<>>
    /\ Succeeded[2].objects # <<>>

\* ------------------------------------------------- identity enumerators

\* kubeUserResource / kubeGroupResource: the identity name is the resource id.
IdentityResource(kind, name) ==
    [type |-> IF kind = "User" THEN "kube_user" ELSE "kube_group", id |-> name]

\* Mutant of Processed: the seen-set is never consulted.
ProcessedNever(cache, name) == FALSE

\* The check of processUser / processGroup (kubeuser.go:140-146).
Processed(cache, name) == name \in cache

\* processUser (kubeuser.go:136-161) and processGroup (part_004:146-171),
\* called by one goroutine: a name already in the seen-set is skipped, any
\* other is marked and its resource appended.  st is [cache, rv].
processIdentity(kind, st, name) ==
    IF Processed(st.cache, name) THEN st
    ELSE [cache |-> st.cache \cup {name},
          rv    |-> Append(st.rv, IdentityResource(kind, name))]

RECURSIVE processAll(_, _, _)
processAll(kind, st, names) ==
    IF names = <<>> THEN st
    ELSE processAll(kind, processIdentity(kind, st, Head(names)), Tail(names))

\* The names of the subjects of a kind in one binding, in subject order.
RECURSIVE SubjectNamesOf(_, _)
SubjectNamesOf(subjects, kind) ==
    IF subjects = <<>> THEN <<>>
    ELSE (IF Head(subjects).kind = kind THEN <<Head(subjects).name>> ELSE <<>>)
         \o SubjectNamesOf(Tail(subjects), kind)

\* The loops over resp.Items and binding.Subjects (kubeuser.go:71-78).
RECURSIVE SubjectNames(_, _)
SubjectNames(items, kind) ==
    IF items = <<>> THEN <<>>
    ELSE SubjectNamesOf(Head(items).subjects, kind)
         \o SubjectNames(Tail(items), kind)

\* The built-in groups kubeGroupBuilder.List processes first (part_004:46-53).
builtInGroups == <<"system:masters", "system:authenticated", "system:unauthenticated">>

\* The seen-set of the builder in use.
IdentCache == IF idKind = "User" THEN userCache ELSE groupCache

\* The state of List before the page token is parsed.
IdentStart ==
    LET st0 == [cache |-> IdentCache, rv |-> <<>>]
    IN  IF idKind = "Group" THEN processAll("Group", st0, builtInGroups) ELSE st0

\* The upstream list a call with this page state makes: kubeuser.go:53, 95.
PhaseOf(pageState) ==
    IF pageState = NoCursor \/ pageState = Lit("rolebindings") THEN "rolebindings"
    ELSE IF pageState = Lit("clusterrolebindings") THEN "clusterrolebindings"
    ELSE "none"

\* opts.Continue of the upstream call: kubeuser.go:55-60, 99-102.
ContinueOf(pageState) ==
    IF pageState = NoCursor THEN NoCursor ELSE pageState

\* The tokens a host passes besides the one the last call returned.
HostTokens ==
    {<<>>, <<Lit("rolebindings")>>, <<Lit("clusterrolebindings")>>}

IdentCall(token, err, phase, subjects, objects, next) ==
    [token |-> token, err |-> err, phase |-> phase, subjects |-> subjects,
     objects |-> objects, next |-> next]

\* The return of kubeUserBuilder.List / kubeGroupBuilder.List when the
\* upstream list it makes, if any, succeeds: kubeuser.go:34-133,
\* part_004:34-143.  pageState is read once, before phase 1.
IdentListReturn(token) ==
    LET bag       == ParsePageToken(token)
        pageState == BagPageToken(bag)
        start     == IdentStart
        \* phase 1: kubeuser.go:53-92
        inPhase1  == pageState = NoCursor \/ pageState = Lit("rolebindings")
        resp1     == UpList("rolebindings", idVersion, ContinueOf(pageState))
        names1    == SubjectNames(resp1.items, idKind)
        st1       == IF inPhase1 THEN processAll(idKind, start, names1) ELSE start
        bag1      == IF inPhase1
                     THEN BagPush(EmptyBag, Lit("clusterrolebindings")) ELSE bag
        \* phase 2: kubeuser.go:95-129
        inPhase2  == pageState = Lit("clusterrolebindings")
        resp2     == UpList("clusterrolebindings", idVersion, BagPageToken(bag1))
        names2    == SubjectNames(resp2.items, idKind)
        st2       == IF inPhase2 THEN processAll(idKind, st1, names2) ELSE st1
    IN  IF inPhase1 /\ resp1.continue # NoCursor
        THEN [st |-> st1,
              call |-> IdentCall(token, FALSE, PhaseOf(pageState), names1, st1.rv,
                                 BagMarshal(BagPush(bag, resp1.continue)))]
        ELSE IF inPhase2 /\ resp2.continue # NoCursor
        THEN [st |-> st2,
              call |-> IdentCall(token, FALSE, PhaseOf(pageState), names2, st2.rv,
                                 BagMarshal(BagPush(bag1, resp2.continue)))]
        ELSE [st |-> st2,
              call |-> IdentCall(token, FALSE, PhaseOf(pageState),
                                 IF inPhase1 THEN names1 ELSE
                                 IF inPhase2 THEN names2 ELSE <<>>,
                                 st2.rv, <<>>)]

\* One call of List on the builder instance, with the token the last call
\* returned or any other one, the upstream list succeeding.  An upstream
\* that is handed a continue token it did not issue serves the first page
\* here and rejects the call in IdentListFails.
IdentList ==
    /\ Len(idLog) < MaxIdCalls
    /\ \E token \in HostTokens \cup {idToken} :
        LET r == IdentListReturn(token)
        IN  /\ userCache' = IF idKind = "User" THEN r.st.cache ELSE userCache
            /\ groupCache' = IF idKind = "Group" THEN r.st.cache ELSE groupCache
            /\ idLog' = Append(idLog, r.call)
            /\ idToken' = r.call.next
            /\ idDone' = (r.call.next = <<>>)
            /\ idClean' = (idClean /\ ~idDone /\ token = idToken)
            /\ idUpCalls' = idUpCalls + (IF r.call.phase = "none" THEN 0 ELSE 1)
    /\ UNCHANGED <<idKind, idVersion, idErrors>>
    /\ UNCHANGED otherThanIdent

\* The same call when the upstream list fails (kubeuser.go:65-67, 107-109):
\* nil, "" and the error are returned; the built-in groups processed before
\* stay in the seen-set.  The host still holds the token it passed.
IdentListFails ==
    /\ Len(idLog) < MaxIdCalls
    /\ \E token \in HostTokens \cup {idToken} :
        LET pageState == BagPageToken(ParsePageToken(token))
            start     == IdentStart
        IN  /\ PhaseOf(pageState) # "none"
            /\ idErrors < MaxIdErrors \/ ~ValidCursor(ContinueOf(pageState))
            /\ idErrors' = IF ValidCursor(ContinueOf(pageState))
                           THEN idErrors + 1 ELSE idErrors
            /\ userCache' = userCache
            /\ groupCache' = IF idKind = "Group" THEN start.cache ELSE groupCache
            /\ idLog' = Append(idLog,
                   IdentCall(token, TRUE, PhaseOf(pageState), <<>>, <<>>, <<>>))
            /\ idToken' = token
            /\ idDone' = FALSE
            /\ idClean' = (idClean /\ ~idDone /\ token = idToken)
    /\ idUpCalls' = FailedListAttempts(idUpCalls)
    /\ UNCHANGED <<idKind, idVersion>>
    /\ UNCHANGED otherThanIdent

\* A fresh builder of either kind (newKubeUserBuilder, newKubeGroupBuilder)
\* over an upstream at any resource version.
InitIdent ==
    /\ CacheInit
    /\ ProcessIdle
    /\ MapIdle
    /\ ListIdle
    /\ VerbsIdle
    /\ SubjectIdle
    /\ GrantsIdle
    /\ idKind \in {"User", "Group"}
    /\ idVersion \in 0..MaxIdVersion
    /\ userCache = {}
    /\ groupCache = {}
    /\ idToken = <<>>
    /\ idDone = FALSE
    /\ idClean = TRUE
    /\ idLog = <<>>
    /\ idErrors = 0
    /\ idUpCalls = 0

NextIdent == IdentList \/ IdentListFails

SpecIdent == InitIdent /\ [][NextIdent]_vars

\* --------------------------------------------- identity enumerators: claims

\* The names of the subjects of the builder's kind in any RoleBinding or
\* ClusterRoleBinding upstream.
UpstreamIdentities ==
    Range(SubjectNames(UpRoleBindings(idVersion), idKind))
      \cup Range(SubjectNames(UpClusterRoleBindings(idVersion), idKind))

\* The names emitted by the calls so far.
EmittedIdentities ==
    UNION {{idLog[i].objects[j].id : j \in 1..Len(idLog[i].objects)} :
             i \in 1..Len(idLog)}

\* The upstream lists made by the calls that returned without error.
ListedPhases == {idLog[i].phase : i \in {j \in 1..Len(idLog) : ~idLog[j].err}}

\* C4 (as claimed, refuted by the model): when an enumeration that started
\* from the empty token and fed every returned token back has ended with an
\* empty token, ClusterRoleBindings have been listed after RoleBindings and
\* every subject name of the builder's kind in any RoleBinding or
\* ClusterRoleBinding has been emitted.
C4_TwoPhasesDrainBothListings ==
    (idClean /\ idDone /\ idLog # <<>>) =>
      /\ "clusterrolebindings" \in ListedPhases
      /\ UpstreamIdentities \subseteq EmittedIdentities

\* The emissions so far: <<call, position>> of every emitted object.
Emissions ==
    UNION {{<<i, j>> : j \in 1..Len(idLog[i].objects)} : i \in 1..Len(idLog)}

\* C7: over any sequence of List calls on one builder instance, whatever
\* tokens are passed, no identity name is emitted twice (neither by two
\* calls nor twice by one), every emitted name is in the seen-set, and the
\* seen-set never loses a name.
C7_EachIdentityEmittedOnce ==
    /\ [](/\ \A e1, e2 \in Emissions :
               idLog[e1[1]].objects[e1[2]].id = idLog[e2[1]].objects[e2[2]].id
                 => e1 = e2
          /\ EmittedIdentities \subseteq IdentCache)
    /\ [][userCache \subseteq userCache' /\ groupCache \subseteq groupCache']_vars

\* C7 witness: a RoleBindings page and later a ClusterRoleBindings page were
\* processed by the same instance, and a name the first call emitted is a
\* subject of the second call's page again.
C7_Witness ==
    \E i, j \in 1..Len(idLog) :
        /\ i < j
        /\ idLog[i].phase = "rolebindings"
        /\ idLog[j].phase = "clusterrolebindings"
        /\ ~idLog[j].err
        /\ \E k \in 1..Len(idLog[i].objects) :
              idLog[i].objects[k].id \in Range(idLog[j].subjects)

\* ------------------------------------------------------- verb normaliser

\* The verb strings in the order of sort.Strings (byte order).
VerbOrder ==
    <<"", "*", "create", "delete", "deletecollection", "get", "impersonate",
      "list", "patch", "update", "watch">>

VerbRank(verb) == CHOOSE i \in 1..Len(VerbOrder) : VerbOrder[i] = verb

\* standardVerbs: secret.go:887.
standardVerbs ==
    <<"get", "list", "watch", "create", "update", "patch", "delete", "deletecollection">>

\* Mutant of SortedSlice: the slice is left in descending order.
RECURSIVE SliceUnsorted(_)
SliceUnsorted(set) ==
    IF set = {} THEN <<>>
    ELSE LET most == CHOOSE v \in set : \A w \in set : VerbRank(v) >= VerbRank(w)
         IN  <<most>> \o SliceUnsorted(set \ {most})

\* rv.ToSlice() followed by sort.Strings: secret.go:914-915.
RECURSIVE SortedSlice(_)
SortedSlice(set) ==
    IF set = {} THEN <<>>
    ELSE LET least == CHOOSE v \in set : \A w \in set : VerbRank(v) <= VerbRank(w)
         IN  <<least>> \o SortedSlice(set \ {least})

\* Mutant of WildcardVerb: the empty verb is an ordinary verb.
WildcardVerbStarOnly(verb) == verb = "*"

\* The test of secret.go:897.
WildcardVerb(verb) == verb = "*" \/ verb = ""

\* The loop of secret.go:895-903: the set built and whether it broke out on
\* a wildcard verb.  acc is [rv, expandToStandard].
RECURSIVE VerbLoop(_, _)
VerbLoop(verbs, acc) ==
    IF verbs = <<>> THEN acc
    ELSE IF WildcardVerb(Head(verbs)) THEN [acc EXCEPT !.expandToStandard = TRUE]
    ELSE VerbLoop(Tail(verbs), [acc EXCEPT !.rv = @ \cup {Head(verbs)}])

\* determineGrantVerbs: secret.go:891-917.  nil is the empty sequence.
determineGrantVerbs(verbs) ==
    LET acc == VerbLoop(verbs, [rv |-> {}, expandToStandard |-> FALSE])
        rv  == IF acc.expandToStandard THEN Range(standardVerbs) ELSE acc.rv
    IN  IF rv = {} THEN <<>> ELSE SortedSlice(rv)

\* ------------------------------------------------------ grant synthesis

\* v2.ResourceId: helpers.go:41-52.  The nil resource type is "".
formatResourceID(resourceType, id) == [type |-> resourceType, id |-> id]

\* grant.NewGrant(resource, entitlementName, principal): the grant of the
\* entitlement of that name on resource, held by principal.
NewGrant(resource, entitlementName, principal) ==
    [resource |-> resource, entitlement |-> entitlementName, principal |-> principal]

\* rbacv1.PolicyRule.
PolicyRule(verbs, apiGroups, resources, resourceNames, nonResourceURLs) ==
    [verbs |-> verbs, apiGroups |-> apiGroups, resources |-> resources,
     resourceNames |-> resourceNames, nonResourceURLs |-> nonResourceURLs]

\* Mutant of mapKubeResourceToBatonType: the wildcards stand for pods of
\* the core group.
mapKubeResourceToBatonTypeExpandingWildcards(apiGroup, resource) ==
    IF apiGroup \in {"", "core", "*"} /\ resource \in {"pods", "pod", "*"}
    THEN "pod" ELSE ""

\* mapKubeResourceToBatonType: secret.go:788-870.  nil is "".
mapKubeResourceToBatonType(apiGroup, resource) ==
    IF apiGroup \in {"", "core"} /\ resource \in {"pods", "pod"} THEN "pod"
    ELSE IF apiGroup \in {"", "core"} /\ resource \in {"namespaces", "namespace"}
         THEN "namespace"
    ELSE IF apiGroup \in {"", "core"} /\ resource \in {"configmaps", "configmap"}
         THEN "configmap"
    ELSE IF apiGroup \in {"", "core"} /\ resource \in {"secrets", "secret"}
         THEN "secret"
    ELSE IF apiGroup \in {"", "core"}
            /\ resource \in {"serviceaccounts", "serviceaccount"}
         THEN "service_account"
    ELSE IF apiGroup \in {"", "core"} /\ resource \in {"nodes", "node"} THEN "node"
    ELSE IF apiGroup \in {"", "core"} /\ resource \in {"users", "user"}
         THEN "kube_user"
    ELSE IF apiGroup \in {"", "core"} /\ resource \in {"groups", "group"}
         THEN "kube_group"
    ELSE IF apiGroup \in {"apps", "apps/v1"}
            /\ resource \in {"deployments", "deployment"}
         THEN "deployment"
    ELSE IF apiGroup \in {"apps", "apps/v1"}
            /\ resource \in {"statefulsets", "statefulset"}
         THEN "statefulset"
    ELSE IF apiGroup \in {"apps", "apps/v1"}
            /\ resource \in {"daemonsets", "daemonset"}
         THEN "daemonset"
    ELSE IF apiGroup \in {"rbac.authorization.k8s.io", "rbac.authorization.k8s.io/v1"}
            /\ resource \in {"roles", "role"}
         THEN "role"
    ELSE IF apiGroup \in {"rbac.authorization.k8s.io", "rbac.authorization.k8s.io/v1"}
            /\ resource \in {"clusterroles", "clusterrole"}
         THEN "cluster_role"
    ELSE IF apiGroup \in {"rbac.authorization.k8s.io", "rbac.authorization.k8s.io/v1"}
            /\ resource \in {"rolebindings", "rolebinding", "clusterrolebindings",
                             "clusterrolebinding"}
         THEN "binding"
    ELSE IF apiGroup \in {"user.openshift.io", "user.openshift.io/v1"}
            /\ resource \in {"users", "user"}
         THEN "kube_user"
    ELSE IF apiGroup \in {"user.openshift.io", "user.openshift.io/v1"}
            /\ resource \in {"groups", "group"}
         THEN "kube_group"
    ELSE ""

\* namespacedResourceTypes and isNamespacedType: secret.go:614-637.
isNamespacedType(resourceTypeId) ==
    resourceTypeId \in {"pod", "secret", "configmap", "service_account",
                        "deployment", "statefulset", "daemonset", "role", "binding"}

\* Mutant of VerbGrants: one grant per target, of its first verb.
VerbGrantsFirstVerb(targetResource, verbs, principalResource) ==
    IF verbs = <<>> THEN <<>>
    ELSE << NewGrant(targetResource, verbs[1], principalResource) >>

\* The verb loops of secret.go:988-995 and 1010-1017: one grant per verb of
\* the verb entitlement on the target, held by the principal resource.
VerbGrants(targetResource, verbs, principalResource) ==
    [i \in 1..Len(verbs) |->
        NewGrant(targetResource, verbs[i], principalResource)]

\* Mutant of ObjectIdOf: the bare name for every target.
ObjectIdOfBareName(resourceTypeId, resourceName, currentNamespace) == resourceName

\* The object id of a named target: secret.go:964-973.
ObjectIdOf(resourceTypeId, resourceName, currentNamespace) ==
    IF currentNamespace # "" /\ isNamespacedType(resourceTypeId)
    THEN currentNamespace \o "/" \o resourceName
    ELSE resourceName

\* Mutant of PairGrants: the grants are on the principal resource and held
\* by the target.
PairGrantsHeldByTarget(principalResource, rule, verbs, apiGroup, res, currentNamespace) ==
    LET targetResourceType == mapKubeResourceToBatonType(apiGroup, res)
        ids == IF Len(rule.resourceNames) > 0
               THEN [i \in 1..Len(rule.resourceNames) |->
                        ObjectIdOf(targetResourceType, rule.resourceNames[i],
                                   currentNamespace)]
               ELSE <<"*">>
        acc[i \in 0..Len(ids)] ==
            IF i = 0 THEN <<>>
            ELSE acc[i - 1] \o
                 VerbGrants(principalResource, verbs,
                            formatResourceID(targetResourceType, ids[i]))
    IN  IF targetResourceType = "" THEN <<>> ELSE acc[Len(ids)]

\* The body of the resource loop for one (apiGroup, resource) pair:
\* secret.go:947-1019.
PairGrants(principalResource, rule, verbs, apiGroup, res, currentNamespace) ==
    LET targetResourceType == mapKubeResourceToBatonType(apiGroup, res)
        named[i \in 0..Len(rule.resourceNames)] ==
            IF i = 0 THEN <<>>
            ELSE named[i - 1] \o
                 VerbGrants(formatResourceID(targetResourceType,
                                ObjectIdOf(targetResourceType, rule.resourceNames[i],
                                           currentNamespace)),
                            verbs, principalResource)
    IN  IF targetResourceType = "" THEN <<>>
        ELSE IF Len(rule.resourceNames) > 0 THEN named[Len(rule.resourceNames)]
        ELSE VerbGrants(formatResourceID(targetResourceType, "*"), verbs,
                        principalResource)

\* Mutant of RuleGrants: the loops of a rule end at the first pair without
\* an internal type.
RuleGrantsUntilUnmapped(principalResource, rule, currentNamespace) ==
    LET verbs == determineGrantVerbs(rule.verbs)
        pairs == [k \in 1..(Len(rule.apiGroups) * Len(rule.resources)) |->
                    <<rule.apiGroups[((k - 1) \div Len(rule.resources)) + 1],
                      rule.resources[((k - 1) % Len(rule.resources)) + 1]>>]
        acc[k \in 0..Len(pairs)] ==
            IF k = 0 THEN [stop |-> FALSE, rv |-> <<>>]
            ELSE IF \/ acc[k - 1].stop
                    \/ mapKubeResourceToBatonType(pairs[k][1], pairs[k][2]) = ""
                 THEN [stop |-> TRUE, rv |-> acc[k - 1].rv]
                 ELSE [stop |-> FALSE,
                       rv |-> acc[k - 1].rv \o
                              PairGrants(principalResource, rule, verbs, pairs[k][1],
                                         pairs[k][2], currentNamespace)]
    IN  IF Len(rule.nonResourceURLs) > 0 THEN <<>>
        ELSE IF Len(verbs) = 0 THEN <<>>
        ELSE acc[Len(pairs)].rv

\* The apiGroup and resource loops of one rule: secret.go:945-946.
RuleGrants(principalResource, rule, currentNamespace) ==
    LET verbs == determineGrantVerbs(rule.verbs)
        pairs == [k \in 1..(Len(rule.apiGroups) * Len(rule.resources)) |->
                    <<rule.apiGroups[((k - 1) \div Len(rule.resources)) + 1],
                      rule.resources[((k - 1) % Len(rule.resources)) + 1]>>]
        acc[k \in 0..Len(pairs)] ==
            IF k = 0 THEN <<>>
            ELSE acc[k - 1] \o PairGrants(principalResource, rule, verbs,
                                          pairs[k][1], pairs[k][2], currentNamespace)
    IN  IF Len(rule.nonResourceURLs) > 0 THEN <<>>
        ELSE IF Len(verbs) = 0 THEN <<>>
        ELSE acc[Len(pairs)]

\* Mutant of generatePermissionGrantsFromRules: the rule loop ends at the
\* first rule with nonResourceURLs.
generatePermissionGrantsUntilNonResourceRule(principalResource, rules, currentNamespace) ==
    LET acc[i \in 0..Len(rules)] ==
            IF i = 0 THEN [stop |-> FALSE, rv |-> <<>>]
            ELSE IF acc[i - 1].stop \/ Len(rules[i].nonResourceURLs) > 0
                 THEN [stop |-> TRUE, rv |-> acc[i - 1].rv]
                 ELSE [stop |-> FALSE,
                       rv |-> acc[i - 1].rv \o RuleGrants(principalResource, rules[i],
                                                          currentNamespace)]
    IN  acc[Len(rules)].rv

\* generatePermissionGrantsFromRules: secret.go:922-1027.  It never returns
\* an error; the result is the grant list.
generatePermissionGrantsFromRules(principalResource, rules, currentNamespace) ==
    LET acc[i \in 0..Len(rules)] ==
            IF i = 0 THEN <<>>
            ELSE acc[i - 1] \o RuleGrants(principalResource, rules[i], currentNamespace)
    IN  acc[Len(rules)]


\* The verbs a policy rule is given in the model.
RuleVerbUniverse == {"", "*", "get", "list", "impersonate"}

RECURSIVE SeqsUpTo(_, _)
SeqsUpTo(S, n) ==
    IF n = 0 THEN {<<>>}
    ELSE LET shorter == SeqsUpTo(S, n - 1)
         IN  shorter \cup {Append(q, x) : q \in shorter, x \in S}

\* The Role and the rule shape the verbs are listed in.
VerbsRole == formatResourceID("role", "a/r1")

VerbsRule(verbs) == PolicyRule(verbs, <<"">>, <<"pods">>, <<>>, <<>>)

\* generatePermissionGrantsFromRules over one rule that lists the verbs; it
\* calls determineGrantVerbs(rule.Verbs) at secret.go:937.
DetermineGrantVerbs ==
    /\ ~verbsDone
    /\ grantVerbs' = determineGrantVerbs(ruleVerbs)
    /\ ruleGrants' =
           generatePermissionGrantsFromRules(VerbsRole, <<VerbsRule(ruleVerbs)>>, "a")
    /\ verbsDone' = TRUE
    /\ UNCHANGED ruleVerbs
    /\ UNCHANGED otherThanVerbs

InitVerbs ==
    /\ CacheInit
    /\ ProcessIdle
    /\ MapIdle
    /\ ListIdle
    /\ IdentIdle
    /\ SubjectIdle
    /\ GrantsIdle
    /\ ruleVerbs \in SeqsUpTo(RuleVerbUniverse, MaxVerbs)
    /\ grantVerbs = <<>>
    /\ verbsDone = FALSE
    /\ ruleGrants = <<>>

NextVerbs == DetermineGrantVerbs

SpecVerbs == InitVerbs /\ [][NextVerbs]_vars

\* ------------------------------------------------ verb normaliser: claims

\* The eight standard verbs in sorted order.
StandardSorted ==
    <<"create", "delete", "deletecollection", "get", "list", "patch", "update", "watch">>

\* C10: for a verb list with "*" or "" at any position, determineGrantVerbs
\* returns exactly the eight standard verbs in sorted order, which is also
\* its result for <<"*">>, and none of the rule's other verbs.
C10_WildcardVerbExpands ==
    (verbsDone /\ \E i \in 1..Len(ruleVerbs) : ruleVerbs[i] \in {"*", ""}) =>
      /\ grantVerbs = StandardSorted
      /\ grantVerbs = determineGrantVerbs(<<"*">>)
      /\ \A i \in 1..Len(ruleVerbs) :
            ruleVerbs[i] \notin Range(standardVerbs) =>
              ruleVerbs[i] \notin Range(grantVerbs)

\* C10 witness: a rule lists a non-standard verb first and the empty verb
\* last, and determineGrantVerbs has returned.
C10_Witness ==
    /\ verbsDone
    /\ Len(ruleVerbs) >= 2
    /\ ruleVerbs[1] = "impersonate"
    /\ ruleVerbs[Len(ruleVerbs)] = ""
    /\ "*" \notin Range(ruleVerbs)
    /\ grantVerbs # <<>>

\* C11: for a verb list without "*" and "", determineGrantVerbs returns the
\* listed verbs, each once, in sorted order, and the rule yields one grant
\* per returned verb; for the empty list the result is empty and the rule
\* yields no grant.
C11_PlainVerbsDedupedAndSorted ==
    (verbsDone /\ \A i \in 1..Len(ruleVerbs) : ruleVerbs[i] \notin {"*", ""}) =>
      /\ Range(grantVerbs) = Range(ruleVerbs)
      /\ Len(grantVerbs) = Cardinality(Range(ruleVerbs))
      /\ \A i, j \in 1..Len(grantVerbs) :
            i < j => VerbRank(grantVerbs[i]) < VerbRank(grantVerbs[j])
      /\ [i \in 1..Len(ruleGrants) |-> ruleGrants[i].entitlement] = grantVerbs
      /\ ruleVerbs = <<>> => grantVerbs = <<>> /\ ruleGrants = <<>>

\* C11 witness: a rule lists a verb twice and out of order, and the result
\* has been computed.
C11_Witness ==
    /\ verbsDone
    /\ Len(ruleVerbs) = 3
    /\ ruleVerbs[1] = "list" /\ ruleVerbs[2] = "get" /\ ruleVerbs[3] = "list"
    /\ Len(ruleGrants) = 2

\* ---------------------------------------------------- subject resolution

\* Mutant of ServiceAccountNamespace: the subject's own namespace is ignored.
BindingNamespaceOnly(subj, defaultNs) == defaultNs

\* The namespace of a ServiceAccount subject: common.go:15-21.
ServiceAccountNamespace(subj, defaultNs) ==
    IF subj.namespace = "" THEN defaultNs ELSE subj.namespace

\* mapSubjectToPrincipalID: common.go:12-42.  err = "" is the nil error.
mapSubjectToPrincipalID(subj, defaultNs) ==
    IF subj.kind = "ServiceAccount"
    THEN IF subj.namespace = "" /\ defaultNs = ""
         THEN [err |-> "service account subject must specify a namespace",
               type |-> "", id |-> ""]
         ELSE [err |-> "", type |-> "service_account",
               id |-> ServiceAccountNamespace(subj, defaultNs) \o "/" \o subj.name]
    ELSE IF subj.kind = "User"
    THEN [err |-> "", type |-> "kube_user", id |-> subj.name]
    ELSE IF subj.kind = "Group"
    THEN [err |-> "", type |-> "kube_group", id |-> subj.name]
    ELSE [err |-> "unsupported subject kind", type |-> "", id |-> ""]

\* The subjects and binding namespaces the function is applied to.
SubjectKinds == {"ServiceAccount", "User", "Group", "Node", ""}
SubjectNameUniverse == {"sys", "alice", "system:masters"}
SubjectNamespaces == {"", "ns-a", "ns-b"}

\* A caller maps a subject of a binding: secret.go:1063.
MapSubject ==
    /\ principalID = NoPrincipalID
    /\ principalID' = mapSubjectToPrincipalID(subject, defaultNamespace)
    /\ UNCHANGED <<subject, defaultNamespace>>
    /\ UNCHANGED otherThanSubject

InitSubject ==
    /\ CacheInit
    /\ ProcessIdle
    /\ MapIdle
    /\ ListIdle
    /\ IdentIdle
    /\ VerbsIdle
    /\ GrantsIdle
    /\ subject \in [kind : SubjectKinds, name : SubjectNameUniverse,
                    namespace : SubjectNamespaces]
    /\ defaultNamespace \in SubjectNamespaces
    /\ principalID = NoPrincipalID

NextSubject == MapSubject

SpecSubject == InitSubject /\ [][NextSubject]_vars

\* --------------------------------------------- subject resolution: claims

\* C12: a ServiceAccount resolves to <ns>/<name> with ns the subject's
\* namespace when it has one and the binding namespace otherwise, and fails
\* when both are empty; a User or a Group resolves to its name unchanged;
\* any other kind fails.
C12_SubjectResolution ==
    principalID # NoPrincipalID =>
      /\ subject.kind = "ServiceAccount" =>
           /\ (subject.namespace = "" /\ defaultNamespace = "") =>
                 principalID.err # "" /\ principalID.id = ""
           /\ subject.namespace # "" =>
                 principalID =
                   [err |-> "", type |-> "service_account",
                    id |-> subject.namespace \o "/" \o subject.name]
           /\ (subject.namespace = "" /\ defaultNamespace # "") =>
                 principalID =
                   [err |-> "", type |-> "service_account",
                    id |-> defaultNamespace \o "/" \o subject.name]
           /\ (subject.name = "sys" /\ subject.namespace = ""
                 /\ defaultNamespace = "ns-a") => principalID.id = "ns-a/sys"
           /\ (subject.name = "sys" /\ subject.namespace = "ns-b") =>
                 principalID.id = "ns-b/sys"
      /\ subject.kind = "User" =>
           principalID = [err |-> "", type |-> "kube_user", id |-> subject.name]
      /\ subject.kind = "Group" =>
           principalID = [err |-> "", type |-> "kube_group", id |-> subject.name]
      /\ subject.kind \notin {"ServiceAccount", "User", "Group"} =>
           principalID.err # "" /\ principalID.id = ""

\* C12 witness: ServiceAccount "sys" with explicit namespace "ns-b" in a
\* binding of namespace "ns-a" has been resolved to "ns-b/sys".
C12_Witness ==
    /\ subject = [kind |-> "ServiceAccount", name |-> "sys", namespace |-> "ns-b"]
    /\ defaultNamespace = "ns-a"
    /\ principalID.err = ""
    /\ principalID.id = "ns-b/sys"

\* ------------------------------------------------- Role and ClusterRole grants

\* Subsequences of s of length at most n.
RECURSIVE SubSeqs(_)
SubSeqs(s) ==
    IF s = <<>> THEN {<<>>}
    ELSE LET rest == SubSeqs(Tail(s))
         IN  rest \cup {<<Head(s)>> \o x : x \in rest}

SubSeqsUpTo(s, n) == {x \in SubSeqs(s) : Len(x) <= n}

\* strings.Join(parts, "/").
RECURSIVE Join(_)
Join(parts) ==
    IF Len(parts) = 1 THEN parts[1]
    ELSE parts[1] \o "/" \o Join(Tail(parts))

\* The "/"-free strings resource ids are made of.
PathAtoms == {"", "a", "b", "r1", "r2"}

\* strings.Split(id, "/"): secret.go:878.
Split(id) == CHOOSE parts \in SeqsUpTo(PathAtoms, 3) \ {<<>>} : Join(parts) = id

\* A nil *v2.ResourceId.
NilResourceId == [type |-> "", id |-> ""]

\* parseRoleResourceID: secret.go:873-884.
parseRoleResourceID(resourceID) ==
    LET parts == Split(resourceID.id)
    IN  IF resourceID = NilResourceId
        THEN [err |-> TRUE, namespace |-> "", name |-> ""]
        ELSE IF Len(parts) # 2 THEN [err |-> TRUE, namespace |-> "", name |-> ""]
        ELSE [err |-> FALSE, namespace |-> parts[1], name |-> parts[2]]

\* rbacv1.Subject.
GSubj(kind, apiGroup, name, namespace) ==
    [kind |-> kind, apiGroup |-> apiGroup, name |-> name, namespace |-> namespace]

GBinding(namespace, name, subjects) ==
    [namespace |-> namespace, name |-> name, subjects |-> subjects]

\* The RoleBindings a binding provider may return for a role.
GrantRoleBindings ==
    << GBinding("a", "rb1",
           << GSubj("Group", "rbac.authorization.k8s.io", "admins", "") >>),
       GBinding("a", "rb2",
           << GSubj("ServiceAccount", "", "sys", "b"),
              GSubj("Node", "", "n1", ""),
              GSubj("User", "rbac.authorization.k8s.io", "alice", ""),
              GSubj("ServiceAccount", "", "sys", "") >>),
       GBinding("b", "rb3",
           << GSubj("ServiceAccount", "", "sys", ""),
              GSubj("Group", "rbac.authorization.k8s.io", "system:masters", ""),
              GSubj("User", "rbac.authorization.k8s.io", "alice", "") >>) >>

\* The ClusterRoleBindings a binding provider may return for a ClusterRole.
GrantClusterRoleBindings ==
    << GBinding("", "crb1",
           << GSubj("Group", "rbac.authorization.k8s.io", "system:masters", ""),
              GSubj("ServiceAccount", "", "sys", ""),
              GSubj("User", "rbac.authorization.k8s.io", "bob", "") >>),
       GBinding("", "crb2",
           << GSubj("", "", "x", ""),
              GSubj("ServiceAccount", "", "sys", "a") >>),
       GBinding("", "crb3", <<>>) >>

\* The rules a Role or ClusterRole may have upstream.
GrantRules ==
    << PolicyRule(<<"get", "list">>, <<"">>, <<"pods", "configmaps", "secrets">>,
                  <<>>, <<>>),
       PolicyRule(<<"*">>, <<"">>, <<"pods">>, <<>>, <<>>),
       PolicyRule(<<"get">>, <<"custom.example.com", "">>, <<"widgets", "nodes">>,
                  <<>>, <<>>),
       PolicyRule(<<>>, <<"">>, <<"pods">>, <<>>, <<>>),
       PolicyRule(<<"get">>, <<"">>, <<"pods">>, <<>>, <<"/healthz">>),
       PolicyRule(<<"update", "get", "update">>, <<"">>, <<"secrets", "namespaces">>,
                  <<"r1", "r2">>, <<>>),
       PolicyRule(<<"list", "">>, <<"apps", "*">>, <<"deployments", "*">>,
                  <<>>, <<>>),
       PolicyRule(<<"watch", "list", "watch">>, <<"apps">>,
                  <<"deployments", "statefulsets", "daemonsets">>, <<>>, <<>>) >>

\* Mutant of BindingMemberGrants: the loop ends at the first subject that
\* does not resolve.
BindingMemberGrantsUntilError(resource, subjects, defaultNs) ==
    LET acc[i \in 0..Len(subjects)] ==
            IF i = 0 THEN [stop |-> FALSE, rv |-> <<>>]
            ELSE LET id == mapSubjectToPrincipalID(subjects[i], defaultNs)
                 IN  IF acc[i - 1].stop \/ id.err # ""
                     THEN [stop |-> TRUE, rv |-> acc[i - 1].rv]
                     ELSE [stop |-> FALSE,
                           rv |-> Append(acc[i - 1].rv,
                                     NewGrant(resource, "member",
                                              formatResourceID(id.type, id.id)))]
    IN  acc[Len(subjects)].rv

\* The subject loop of one binding (secret.go:1062-1083): a subject that
\* does not resolve is skipped, any other gets the member grant on the role.
BindingMemberGrants(resource, subjects, defaultNs) ==
    LET acc[i \in 0..Len(subjects)] ==
            IF i = 0 THEN <<>>
            ELSE LET id == mapSubjectToPrincipalID(subjects[i], defaultNs)
                 IN  IF id.err # "" THEN acc[i - 1]
                     ELSE Append(acc[i - 1],
                              NewGrant(resource, "member",
                                       formatResourceID(id.type, id.id)))
    IN  acc[Len(subjects)]

\* Mutant of MemberGrants: a principal bound by several bindings gets the
\* member grant once.
MemberGrantsOncePerPrincipal(resource, bindings, namespaces) ==
    LET acc[i \in 0..Len(bindings)] ==
            IF i = 0 THEN <<>>
            ELSE acc[i - 1] \o
                 SelectSeq(BindingMemberGrants(resource, bindings[i].subjects,
                                               namespaces[i]),
                           LAMBDA g : \A k \in 1..Len(acc[i - 1]) : acc[i - 1][k] # g)
    IN  acc[Len(bindings)]

\* The binding loops (secret.go:1061, clusterrole.go:190, 212); namespaces[i]
\* is the default namespace the subjects of bindings[i] are resolved with.
MemberGrants(resource, bindings, namespaces) ==
    LET acc[i \in 0..Len(bindings)] ==
            IF i = 0 THEN <<>>
            ELSE acc[i - 1] \o
                 BindingMemberGrants(resource, bindings[i].subjects, namespaces[i])
    IN  acc[Len(bindings)]

GrantsError == [err |-> TRUE, grants |-> <<>>]

\* Mutant of roleBuilderGrants: a Role without matching bindings has no
\* grants at all.
roleBuilderGrantsNoneUnbound(call) ==
    LET parsed == parseRoleResourceID(call.resource)
        members == MemberGrants(call.resource, call.roleBindings,
                       [i \in 1..Len(call.roleBindings) |-> parsed.namespace])
    IN  IF parsed.err \/ call.fails # "" THEN GrantsError
        ELSE IF call.roleBindings = <<>> THEN [err |-> FALSE, grants |-> <<>>]
        ELSE [err |-> FALSE,
              grants |-> members \o generatePermissionGrantsFromRules(
                                        call.resource, call.rules, parsed.namespace)]

\* roleBuilder.Grants: secret.go:1030-1093.  call.fails names the upstream
\* call that fails: "get" (the Role), "provider" (the binding provider).
roleBuilderGrants(call) ==
    LET parsed == parseRoleResourceID(call.resource)
        matchingBindings == call.roleBindings
        members == MemberGrants(call.resource, matchingBindings,
                       [i \in 1..Len(matchingBindings) |-> parsed.namespace])
        permissionGrants ==
            generatePermissionGrantsFromRules(call.resource, call.rules,
                                              parsed.namespace)
    IN  IF parsed.err THEN GrantsError
        ELSE IF call.fails = "get" THEN GrantsError
        ELSE IF call.fails = "provider" THEN GrantsError
        ELSE [err |-> FALSE, grants |-> members \o permissionGrants]

\* clusterRoleBuilder.Grants: clusterrole.go:157-242.
clusterRoleBuilderGrants(call) ==
    LET matchingRoleBindings == call.roleBindings
        matchingClusterBindings == call.clusterRoleBindings
        clusterMembers ==
            MemberGrants(call.resource, matchingClusterBindings,
                [i \in 1..Len(matchingClusterBindings) |-> ""])
        namespacedMembers ==
            MemberGrants(call.resource, matchingRoleBindings,
                [i \in 1..Len(matchingRoleBindings) |->
                    matchingRoleBindings[i].namespace])
        permissionGrants ==
            generatePermissionGrantsFromRules(call.resource, call.rules, "")
    IN  IF call.resource.id = "" THEN GrantsError
        ELSE IF call.fails = "get" THEN GrantsError
        ELSE IF call.fails = "provider" THEN GrantsError
        ELSE [err |-> FALSE,
              grants |-> clusterMembers \o namespacedMembers \o permissionGrants]

\* The pieces identity names are made of.
NameFragments == {"", "admins", "alice", "bob", "masters", "sys", "x", "n1"}

\* strings.Contains(name, "system:"): common.go:191.
ContainsSystem(name) ==
    \E pre, post \in NameFragments : pre \o "system:" \o post = name

\* GrantRoleToSubject: common.go:180-213.  err = TRUE is "unsupported
\* subject type".
GrantRoleToSubject(subj, resource, entName) ==
    IF subj.kind = "ServiceAccount"
    THEN [err |-> FALSE,
          grant |-> NewGrant(resource, entName,
                        formatResourceID("service_account",
                                         subj.namespace \o "/" \o subj.name))]
    ELSE IF subj.apiGroup \in {"rbac.authorization.k8s.io",
                               "rbac.authorization.k8s.io/v1"}
            /\ ~ContainsSystem(subj.name) /\ subj.kind = "Group"
    THEN [err |-> FALSE,
          grant |-> NewGrant(resource, entName, formatResourceID("kube_group", subj.name))]
    ELSE IF subj.apiGroup \in {"rbac.authorization.k8s.io",
                               "rbac.authorization.k8s.io/v1"}
            /\ ~ContainsSystem(subj.name) /\ subj.kind = "User"
    THEN [err |-> FALSE,
          grant |-> NewGrant(resource, entName, formatResourceID("kube_user", subj.name))]
    ELSE [err |-> TRUE, grant |-> NewGrant(resource, entName, formatResourceID("", ""))]

\* The loops of part_007:177-191 over the bindings and their subjects.
SubjectGrants(resource, bindings, entName) ==
    LET perBinding(subjects) ==
            LET acc[i \in 0..Len(subjects)] ==
                    IF i = 0 THEN <<>>
                    ELSE LET g == GrantRoleToSubject(subjects[i], resource, entName)
                         IN  IF g.err THEN acc[i - 1] ELSE Append(acc[i - 1], g.grant)
            IN  acc[Len(subjects)]
        all[i \in 0..Len(bindings)] ==
            IF i = 0 THEN <<>> ELSE all[i - 1] \o perBinding(bindings[i].subjects)
    IN  all[Len(bindings)]

\* Mutant of roleBuilderGrantsFromBindings: the edges of the Role's rules
\* are appended to the membership edges.
roleBuilderGrantsFromBindingsAndRules(call) ==
    LET parsed == parseRoleResourceID(call.resource)
    IN  IF parsed.err THEN GrantsError
        ELSE IF call.fails = "provider" THEN GrantsError
        ELSE [err |-> FALSE,
              grants |-> SubjectGrants(call.resource, call.roleBindings, "member")
                         \o generatePermissionGrantsFromRules(call.resource,
                                call.rules, parsed.namespace)]

\* roleBuilder.Grants in its membership-only form: part_007:158-194.  The
\* Role is not fetched; call.fails = "provider" fails the binding provider.
roleBuilderGrantsFromBindings(call) ==
    LET parsed == parseRoleResourceID(call.resource)
        matchingBindings == call.roleBindings
    IN  IF parsed.err THEN GrantsError
        ELSE IF call.fails = "provider" THEN GrantsError
        ELSE IF Len(matchingBindings) = 0 THEN [err |-> FALSE, grants |-> <<>>]
        ELSE [err |-> FALSE,
              grants |-> SubjectGrants(call.resource, matchingBindings, "member")]

\* The resources Grants is called with.
\* const clusterScopedMember: clusterrole.go:274.
clusterScopedMember == "all:member"

\* fmt.Sprintf("%s:%s", namespace, "member"): clusterrole.go:457.
NamespaceMember(namespace) == namespace \o ":" \o "member"

\* The RoleBinding loop of clusterrole.go:453-465: the subjects of each
\* binding get the entitlement named after the binding's namespace.
NamespacedSubjectGrants(resource, bindings) ==
    LET all[i \in 0..Len(bindings)] ==
            IF i = 0 THEN <<>>
            ELSE all[i - 1] \o SubjectGrants(resource, <<bindings[i]>>,
                                             NamespaceMember(bindings[i].namespace))
    IN  all[Len(bindings)]

\* clusterRoleBuilder.Grants with per-scope membership entitlements:
\* clusterrole.go:417-468.  call.fails = "provider": the binding provider
\* fails.
clusterRoleBuilderGrantsScoped(call) ==
    LET matchingRoleBindings == call.roleBindings
        matchingClusterBindings == call.clusterRoleBindings
    IN  IF call.resource.id = "" THEN GrantsError
        ELSE IF call.fails = "provider" THEN GrantsError
        ELSE IF Len(matchingRoleBindings) = 0 /\ Len(matchingClusterBindings) = 0
             THEN [err |-> FALSE, grants |-> <<>>]
        ELSE [err |-> FALSE,
              grants |-> SubjectGrants(call.resource, matchingClusterBindings,
                                       clusterScopedMember)
                         \o NamespacedSubjectGrants(call.resource, matchingRoleBindings)]

\* The same for the scoped clusterRoleBuilder.Grants (clusterrole.go:421-431).
clusterRoleBuilderScopedUpstream(call) ==
    IF call.resource.id = "" THEN <<>>
    ELSE <<"GetMatchingBindingsForClusterRole">>

\* The RoleBindings that may reference a ClusterRole: those above and one
\* in a namespace named "all".
ScopedRoleBindings ==
    GrantRoleBindings \o
      << GBinding("all", "rb4",
             << GSubj("User", "rbac.authorization.k8s.io", "carol", "") >>) >>

\* Mutant of roleBuilderUpstream: the Role is fetched before the resource
\* id is parsed.
roleBuilderUpstreamBeforeParse(call) ==
    IF call.fails = "get" \/ parseRoleResourceID(call.resource).err
    THEN <<"Roles.Get">>
    ELSE <<"Roles.Get", "GetMatchingRoleBindings">>

\* The upstream calls of roleBuilder.Grants in call order (secret.go:1036-
\* 1049): none when the id does not parse, the Role fetch, then the binding
\* provider, which reads or loads the binding cache.
roleBuilderUpstream(call) ==
    IF parseRoleResourceID(call.resource).err THEN <<>>
    ELSE IF call.fails = "get" THEN <<"Roles.Get">>
    ELSE <<"Roles.Get", "GetMatchingRoleBindings">>

\* The same for the membership-only roleBuilder.Grants (part_007:163-169).
roleBuilderFromBindingsUpstream(call) ==
    IF parseRoleResourceID(call.resource).err THEN <<>>
    ELSE <<"GetMatchingRoleBindings">>

\* The same for clusterRoleBuilder.Grants (clusterrole.go:162-175).
clusterRoleBuilderUpstream(call) ==
    IF call.resource.id = "" THEN <<>>
    ELSE IF call.fails = "get" THEN <<"ClusterRoles.Get">>
    ELSE <<"ClusterRoles.Get", "GetMatchingBindingsForClusterRole">>

\* The host may call Grants of a role builder again after a call that
\* failed on its resource id.
AfterMalformed ==
    /\ grantsCall.builder \in {"role", "role_bindings_only"}
    /\ parseRoleResourceID(grantsCall.resource).err
    /\ grantsEffects.earlier < MaxMalformed

\* The history a role builder's call leaves.
RoleEffects(upstream) ==
    [upstream |-> upstream,
     earlier |-> IF grantsCall = NoGrantsCall THEN 0 ELSE grantsEffects.earlier + 1]

\* The resources Grants of a role builder is called with: well-formed ids,
\* ids without "/" and with two, and the nil id.
RoleResources ==
    {formatResourceID("role", id) : id \in {"a/r1", "b/r2", "r1", "a/b/r1"}}
      \cup {NilResourceId}

ClusterRoleResourceIds == {"r1", ""}

GrantsCall(builder, resource, rules, roleBindings, clusterRoleBindings, fails) ==
    [builder |-> builder, resource |-> resource, rules |-> rules,
     roleBindings |-> roleBindings, clusterRoleBindings |-> clusterRoleBindings,
     fails |-> fails]

\* The rule lists and binding lists a call may meet.
RuleLists == SubSeqsUpTo(GrantRules, MaxRules)
RoleBindingLists == SubSeqsUpTo(GrantRoleBindings, MaxBindings)
ClusterRoleBindingLists == SubSeqsUpTo(GrantClusterRoleBindings, MaxBindings)

\* The binding provider answers a Role's query with RoleBindings of the
\* Role's own namespace (GetMatchingRoleBindings(ctx, namespace, name)); an
\* id that does not parse names no Role, so there are no bindings and, in
\* the actions below, no rules.
InRoleNamespace(resource, rbs) ==
    \A i \in 1..Len(rbs) : rbs[i].namespace = parseRoleResourceID(resource).namespace

\* One call of roleBuilder.Grants (secret.go:1030-1093), the Role fetched
\* and the binding provider answering.
RoleGrants ==
    /\ grantsCall = NoGrantsCall \/ AfterMalformed
    /\ \E resource \in RoleResources, rules \in RuleLists, rbs \in RoleBindingLists :
        LET call == GrantsCall("role", resource, rules, rbs,
                               <<>>, "")
        IN  /\ InRoleNamespace(call.resource, rbs)
            /\ parseRoleResourceID(resource).err => rules = <<>>
            /\ grantsCall' = call
            /\ grantsReturn' = roleBuilderGrants(call)
            /\ grantsEffects' = RoleEffects(roleBuilderUpstream(call))
    /\ UNCHANGED otherThanGrants

\* The same call when the Role cannot be fetched or the binding provider
\* fails (secret.go:1044-1056); nothing of the rules or bindings is read.
RoleGrantsFails ==
    /\ grantsCall = NoGrantsCall \/ AfterMalformed
    /\ \E resource \in RoleResources, fails \in {"get", "provider"} :
        LET call == GrantsCall("role", resource, <<>>, <<>>,
                               <<>>, fails)
        IN  /\ grantsCall' = call
            /\ grantsReturn' = roleBuilderGrants(call)
            /\ grantsEffects' = RoleEffects(roleBuilderUpstream(call))
    /\ UNCHANGED otherThanGrants

\* One call of clusterRoleBuilder.Grants: clusterrole.go:157-242.
ClusterRoleGrants ==
    /\ grantsCall = NoGrantsCall
    /\ \E id \in ClusterRoleResourceIds, rules \in RuleLists,
          rbs \in RoleBindingLists, crbs \in ClusterRoleBindingLists :
        LET call == GrantsCall("cluster_role", formatResourceID("cluster_role", id),
                               rules, rbs, crbs, "")
        IN  /\ grantsCall' = call
            /\ grantsReturn' = clusterRoleBuilderGrants(call)
            /\ grantsEffects' = [upstream |-> clusterRoleBuilderUpstream(call), earlier |-> 0]
    /\ UNCHANGED otherThanGrants

\* The same call when the ClusterRole cannot be fetched or the binding
\* provider fails: clusterrole.go:170-182.
ClusterRoleGrantsFails ==
    /\ grantsCall = NoGrantsCall
    /\ \E id \in ClusterRoleResourceIds, fails \in {"get", "provider"} :
        LET call == GrantsCall("cluster_role", formatResourceID("cluster_role", id),
                               <<>>, <<>>, <<>>, fails)
        IN  /\ grantsCall' = call
            /\ grantsReturn' = clusterRoleBuilderGrants(call)
            /\ grantsEffects' = [upstream |-> clusterRoleBuilderUpstream(call), earlier |-> 0]
    /\ UNCHANGED otherThanGrants

\* One call of the membership-only roleBuilder.Grants (part_007:158-194) on
\* a Role with any rules, the binding provider answering or failing.
RoleGrantsFromBindings ==
    /\ grantsCall = NoGrantsCall \/ AfterMalformed
    /\ \E resource \in RoleResources, rules \in RuleLists, rbs \in RoleBindingLists,
          fails \in {"", "provider"} :
        LET call == GrantsCall("role_bindings_only", resource,
                               rules, rbs, <<>>, fails)
        IN  /\ InRoleNamespace(call.resource, rbs)
            /\ parseRoleResourceID(resource).err => rules = <<>>
            /\ grantsCall' = call
            /\ grantsReturn' = roleBuilderGrantsFromBindings(call)
            /\ grantsEffects' = RoleEffects(roleBuilderFromBindingsUpstream(call))
    /\ UNCHANGED otherThanGrants

\* One call of the scoped clusterRoleBuilder.Grants (clusterrole.go:417-468),
\* the binding provider answering or failing.
ClusterRoleGrantsScoped ==
    /\ grantsCall = NoGrantsCall
    /\ \E id \in ClusterRoleResourceIds,
          rbs \in SubSeqsUpTo(ScopedRoleBindings, MaxBindings),
          crbs \in ClusterRoleBindingLists, fails \in {"", "provider"} :
        LET call == GrantsCall("cluster_role_scoped",
                               formatResourceID("cluster_role", id), <<>>, rbs, crbs,
                               fails)
        IN  /\ (id = "" \/ fails # "") => (rbs = <<>> /\ crbs = <<>>)
            /\ grantsCall' = call
            /\ grantsReturn' = clusterRoleBuilderGrantsScoped(call)
            /\ grantsEffects' = [upstream |-> clusterRoleBuilderScopedUpstream(call),
                                 earlier |-> 0]
    /\ UNCHANGED otherThanGrants

InitGrants ==
    /\ CacheInit
    /\ ProcessIdle
    /\ MapIdle
    /\ ListIdle
    /\ IdentIdle
    /\ VerbsIdle
    /\ SubjectIdle
    /\ GrantsIdle

NextGrants ==
    \/ RoleGrants
    \/ RoleGrantsFails
    \/ ClusterRoleGrants
    \/ ClusterRoleGrantsFails
    \/ RoleGrantsFromBindings
    \/ ClusterRoleGrantsScoped

SpecGrants == InitGrants /\ [][NextGrants]_vars

\* ----------------------------------------- Role and ClusterRole grants: claims

\* A Grants call of the rule-driven builders returned without error.
GrantsReturned ==
    /\ grantsCall.builder \in {"role", "cluster_role"}
    /\ ~grantsReturn.err

\* The membership edges and the verb edges of a grant list, in order.
MemberEdges(grants) == SelectSeq(grants, LAMBDA g : g.entitlement = "member")
VerbEdges(grants) == SelectSeq(grants, LAMBDA g : g.entitlement # "member")

\* The namespace of the Role a call is about.
RoleNamespaceOf(call) ==
    IF call.resource.id = "a/r1" THEN "a"
    ELSE IF call.resource.id = "b/r2" THEN "b" ELSE ""

\* The matching bindings of a call in processing order, each with the
\* namespace its subjects inherit: the Role's namespace for a Role, none for
\* a ClusterRoleBinding, the binding's own for a RoleBinding of a ClusterRole.
MatchingOf(call) ==
    IF call.builder \in {"cluster_role", "cluster_role_scoped"}
    THEN [i \in 1..Len(call.clusterRoleBindings) |->
             [subjects |-> call.clusterRoleBindings[i].subjects, ns |-> ""]]
         \o [i \in 1..Len(call.roleBindings) |->
             [subjects |-> call.roleBindings[i].subjects,
              ns |-> call.roleBindings[i].namespace]]
    ELSE [i \in 1..Len(call.roleBindings) |->
             [subjects |-> call.roleBindings[i].subjects, ns |-> RoleNamespaceOf(call)]]

\* The (matching binding, subject) pairs of a call.
SubjectPairs(call) ==
    {<<i, j>> \in (1..Len(MatchingOf(call))) \X (1..4) :
        j <= Len(MatchingOf(call)[i].subjects)}

\* The resolve contract: whether a subject resolves and to which principal.
Resolves(subj, ns) ==
    \/ subj.kind \in {"User", "Group"}
    \/ subj.kind = "ServiceAccount" /\ (subj.namespace # "" \/ ns # "")

PrincipalOf(subj, ns) ==
    IF subj.kind = "ServiceAccount"
    THEN [type |-> "service_account",
          id |-> (IF subj.namespace # "" THEN subj.namespace ELSE ns) \o "/" \o subj.name]
    ELSE [type |-> IF subj.kind = "User" THEN "kube_user" ELSE "kube_group",
          id |-> subj.name]

ResolvingPairs(call) ==
    {p \in SubjectPairs(call) :
        Resolves(MatchingOf(call)[p[1]].subjects[p[2]], MatchingOf(call)[p[1]].ns)}

\* C13: a ClusterRole Grants call whose matching bindings hold a subject
\* that does not resolve (a ServiceAccount without namespace in a
\* ClusterRoleBinding, a subject of an unsupported kind) returns no error,
\* no membership edge for such a subject, the membership edge of every
\* subject that resolves, and all permission edges of the rules.
C13_UnresolvableSubjectSkipped ==
    (GrantsReturned /\ grantsCall.builder = "cluster_role") =>
      LET m == MatchingOf(grantsCall)
          members == MemberEdges(grantsReturn.grants)
      IN  /\ \A p \in ResolvingPairs(grantsCall) :
                \E k \in 1..Len(members) :
                    members[k] = [resource |-> grantsCall.resource,
                                  entitlement |-> "member",
                                  principal |-> PrincipalOf(m[p[1]].subjects[p[2]],
                                                            m[p[1]].ns)]
          /\ \A k \in 1..Len(members) :
                /\ members[k].principal.type
                     \in {"kube_user", "kube_group", "service_account"}
                /\ \E p \in ResolvingPairs(grantsCall) :
                      members[k].principal =
                          PrincipalOf(m[p[1]].subjects[p[2]], m[p[1]].ns)
          /\ VerbEdges(grantsReturn.grants) =
                generatePermissionGrantsFromRules(grantsCall.resource,
                                                  grantsCall.rules, "")

\* C13 witness: a ClusterRoleBinding with a ServiceAccount subject without
\* namespace between two subjects that resolve, and a rule with edges.
C13_Witness ==
    /\ GrantsReturned
    /\ grantsCall.builder = "cluster_role"
    /\ grantsCall.clusterRoleBindings # <<>>
    /\ grantsCall.clusterRoleBindings[1].name = "crb1"
    /\ Len(MemberEdges(grantsReturn.grants)) >= 2
    /\ VerbEdges(grantsReturn.grants) # <<>>

\* A Grants call of the rule-driven builders whose resource id is well
\* formed and whose upstream calls all answer.
GrantsAnswered ==
    /\ grantsCall.builder \in {"role", "cluster_role"}
    /\ grantsCall.fails = ""
    /\ IF grantsCall.builder = "role"
       THEN grantsCall.resource.id \in {"a/r1", "b/r2"}
       ELSE grantsCall.resource.id # ""

C15_NoBindingsNoGrants ==
    ( /\ grantsCall.builder = "role_bindings_only"
      /\ grantsCall.fails = ""
      /\ grantsCall.resource.id \in {"a/r1", "b/r2"}
      /\ grantsCall.roleBindings = <<>> )
    => grantsReturn = [err |-> FALSE, grants |-> <<>>]

\* C15 witness: such a call on a Role whose rules carry permission edges.
C15_Witness ==
    /\ grantsCall.builder = "role_bindings_only"
    /\ grantsCall.fails = ""
    /\ grantsCall.roleBindings = <<>>
    /\ Len(grantsCall.rules) = 2
    /\ generatePermissionGrantsFromRules(grantsCall.resource, grantsCall.rules, "a")
         # <<>>
    /\ grantsReturn = [err |-> FALSE, grants |-> <<>>]

\* What the builder of a call returns when the binding provider answers
\* with other bindings for the same role and rules.
GrantsWith(call, rbs, crbs) ==
    IF call.builder = "role"
    THEN roleBuilderGrants([call EXCEPT !.roleBindings = rbs])
    ELSE clusterRoleBuilderGrants([call EXCEPT !.roleBindings = rbs,
                                               !.clusterRoleBindings = crbs])

\* Other answers of the binding provider to compare a call with: no
\* binding, or one binding of each kind.  Every call is compared with the
\* call without bindings, which relates any two answers to each other.
OtherBindings(call) ==
    IF call.builder = "role"
    THEN {b \in SubSeqsUpTo(GrantRoleBindings, 1) \X {<<>>} :
             InRoleNamespace(call.resource, b[1])}
    ELSE SubSeqsUpTo(GrantRoleBindings, 1) \X SubSeqsUpTo(GrantClusterRoleBindings, 1)

PlainRule(rule) ==
    /\ rule.resourceNames = <<>>
    /\ rule.nonResourceURLs = <<>>
    /\ Len(rule.apiGroups) = 1
    /\ \A i \in 1..Len(rule.resources) :
          mapKubeResourceToBatonType(rule.apiGroups[1], rule.resources[i]) # ""
    /\ \A i, j \in 1..Len(rule.resources) :
          i # j => mapKubeResourceToBatonType(rule.apiGroups[1], rule.resources[i])
                   # mapKubeResourceToBatonType(rule.apiGroups[1], rule.resources[j])

\* The effective verbs of a rule: the eight standard verbs when the list
\* has "*" or "", the distinct listed verbs otherwise.
EffectiveVerbs(rule) ==
    IF \E i \in 1..Len(rule.verbs) : rule.verbs[i] \in {"*", ""}
    THEN {"create", "delete", "deletecollection", "get", "list", "patch",
          "update", "watch"}
    ELSE Range(rule.verbs)

AttributedTo(g, identity) == g.resource = identity \/ g.principal = identity

\* C18: every verb edge returned by roleBuilder.Grants is attributed to a
\* subject of a matching binding; for the rule {verbs ["*"], resources
\* ["pods"]} bound to the Group "admins" every verb edge is attributed to
\* the identity (kube_group, "admins").
C18_VerbEdgesAttributedToSubjects ==
    (GrantsAnswered /\ grantsCall.builder = "role") =>
      LET m == MatchingOf(grantsCall)
          edges == VerbEdges(grantsReturn.grants)
      IN  /\ \A k \in 1..Len(edges) :
                \E p \in ResolvingPairs(grantsCall) :
                    AttributedTo(edges[k],
                                 PrincipalOf(m[p[1]].subjects[p[2]], m[p[1]].ns))
          /\ ( /\ grantsCall.rules = << PolicyRule(<<"*">>, <<"">>, <<"pods">>,
                                                   <<>>, <<>>) >>
               /\ Len(m) = 1
               /\ m[1].subjects = << GSubj("Group", "rbac.authorization.k8s.io",
                                           "admins", "") >> )
             => \A k \in 1..Len(edges) :
                   AttributedTo(edges[k], formatResourceID("kube_group", "admins"))

\* The internal types the (apiGroup, resource) pairs of a rule list map to.
MappedTypes(rules) ==
    {mapKubeResourceToBatonType(rules[i].apiGroups[g], rules[i].resources[r]) :
        <<i, g, r>> \in {t \in (1..Len(rules)) \X (1..2) \X (1..3) :
                            /\ t[2] <= Len(rules[t[1]].apiGroups)
                            /\ t[3] <= Len(rules[t[1]].resources)}} \ {""}

\* The object ids the rules of a list name, bare and namespace-qualified,
\* next to the wildcard object.
TargetIds(rules) ==
    {"*"} \cup UNION {{rules[i].resourceNames[n], "a/" \o rules[i].resourceNames[n],
                       "b/" \o rules[i].resourceNames[n]} :
                         <<i, n>> \in {t \in (1..Len(rules)) \X (1..2) :
                                          t[2] <= Len(rules[t[1]].resourceNames)}}

PairsOf(rule) ==
    {<<rule.apiGroups[g], rule.resources[r]>> :
        <<g, r>> \in (1..Len(rule.apiGroups)) \X (1..Len(rule.resources))}

MappedPairs(rule) ==
    {p \in PairsOf(rule) : mapKubeResourceToBatonType(p[1], p[2]) # ""}

\* The edges a rule is due: none with nonResourceURLs, otherwise one per
\* mapped pair, effective verb and named object (or the wildcard object).
EdgesDue(rule) ==
    IF rule.nonResourceURLs # <<>> \/ rule.verbs = <<>> THEN 0
    ELSE Cardinality(MappedPairs(rule)) * Cardinality(EffectiveVerbs(rule))
         * (IF rule.resourceNames = <<>> THEN 1 ELSE Len(rule.resourceNames))

\* C20: a pair (apiGroup, resource) without internal type contributes no
\* edge and raises no error, and the pairs and rules after it are still
\* processed: every mapped pair of every rule has its edges.
C20_UnmappedPairSkipped ==
    GrantsAnswered =>
      LET rules == grantsCall.rules
          edges == VerbEdges(grantsReturn.grants)
          due[i \in 0..Len(rules)] ==
              IF i = 0 THEN 0 ELSE due[i - 1] + EdgesDue(rules[i])
      IN  /\ ~grantsReturn.err
          /\ \A k \in 1..Len(edges) : edges[k].resource.type # ""
          /\ Len(edges) = due[Len(rules)]
          /\ \A i \in 1..Len(rules) :
                EdgesDue(rules[i]) > 0 =>
                  \A p \in MappedPairs(rules[i]), v \in EffectiveVerbs(rules[i]) :
                      \E k \in 1..Len(edges) :
                          /\ edges[k].entitlement = v
                          /\ edges[k].resource.type
                               = mapKubeResourceToBatonType(p[1], p[2])

\* C20 witness: a rule whose first pairs (custom.example.com, widgets),
\* (custom.example.com, nodes) and ("", widgets) have no internal type and
\* whose last pair ("", nodes) has one, followed by a second rule; the
\* node edge and the edges of the second rule are returned.
C20_Witness ==
    /\ GrantsAnswered
    /\ ~grantsReturn.err
    /\ Len(grantsCall.rules) = 2
    /\ grantsCall.rules[1].apiGroups = <<"custom.example.com", "">>
    /\ grantsCall.rules[1].resources = <<"widgets", "nodes">>
    /\ EdgesDue(grantsCall.rules[2]) > 0
    /\ LET edges == VerbEdges(grantsReturn.grants)
       IN  /\ edges[1] = NewGrant(formatResourceID("node", "*"), "get",
                                  grantsCall.resource)
           /\ Len(edges) = 1 + EdgesDue(grantsCall.rules[2])

\* ------------------------------------------------- resource type mapping

\* The API groups and resource kinds a policy rule may name: the spellings
\* of the table of mapKubeResourceToBatonType, the wildcard, a kind the
\* table names without a type ("services") and names it does not hold.
ApiGroupUniverse ==
    {"", "core", "apps", "apps/v1", "rbac.authorization.k8s.io",
     "rbac.authorization.k8s.io/v1", "user.openshift.io", "user.openshift.io/v1",
     "*", "custom.example.com"}

ResourceSpellings ==
    << <<"pods", "pod">>, <<"namespaces", "namespace">>, <<"services", "service">>,
       <<"configmaps", "configmap">>, <<"secrets", "secret">>,
       <<"serviceaccounts", "serviceaccount">>, <<"nodes", "node">>,
       <<"users", "user">>, <<"groups", "group">>,
       <<"deployments", "deployment">>, <<"statefulsets", "statefulset">>,
       <<"daemonsets", "daemonset">>, <<"roles", "role">>,
       <<"clusterroles", "clusterrole">>, <<"rolebindings", "rolebinding">>,
       <<"clusterrolebindings", "clusterrolebinding">> >>

ResourceUniverse ==
    {ResourceSpellings[i][j] : i \in 1..Len(ResourceSpellings), j \in 1..2}
      \cup {"*", "widgets"}

\* One call of mapKubeResourceToBatonType (secret.go:788-870), and the
\* grants generatePermissionGrantsFromRules derives for a Role in namespace
\* "a" from the rule {verbs [get], apiGroups [apiGroup], resources [resource]}.
MapKubeResource ==
    /\ ~mapCall.done
    /\ \E apiGroup \in ApiGroupUniverse, resource \in ResourceUniverse :
        /\ mapCall' = [done |-> TRUE, apiGroup |-> apiGroup, resource |-> resource]
        /\ mapReturn' =
             [type |-> mapKubeResourceToBatonType(apiGroup, resource),
              grants |-> generatePermissionGrantsFromRules(VerbsRole,
                             << PolicyRule(<<"get">>, <<apiGroup>>, <<resource>>,
                                           <<>>, <<>>) >>, "a")]
    /\ UNCHANGED otherThanMap

InitMap ==
    /\ CacheInit
    /\ ProcessIdle
    /\ ListIdle
    /\ IdentIdle
    /\ VerbsIdle
    /\ SubjectIdle
    /\ GrantsIdle
    /\ MapIdle

NextMap == MapKubeResource

SpecMap == InitMap /\ [][NextMap]_vars

\* The other spelling of a resource kind of the table, or the kind itself.
OtherSpelling(resource) ==
    IF \E i \in 1..Len(ResourceSpellings) : resource \in Range(ResourceSpellings[i])
    THEN LET i == CHOOSE k \in 1..Len(ResourceSpellings) :
                      resource \in Range(ResourceSpellings[k])
         IN  IF ResourceSpellings[i][1] = resource
             THEN ResourceSpellings[i][2] ELSE ResourceSpellings[i][1]
    ELSE resource

\* C21: resource kind "*" has no internal type under any API group, API
\* group "*" none under any resource kind, and a rule on such a pair has no
\* permission edge; the singular and the plural spelling of a table entry
\* map to the same internal type.
C21_WildcardsUnmapped ==
    mapCall.done =>
      /\ (mapCall.resource = "*" \/ mapCall.apiGroup = "*") =>
            /\ mapReturn.type = ""
            /\ mapReturn.grants = <<>>
      /\ mapReturn.type =
            mapKubeResourceToBatonType(mapCall.apiGroup, OtherSpelling(mapCall.resource))
      /\ (mapReturn.type # "") =>
            mapReturn.grants = << NewGrant(formatResourceID(mapReturn.type, "*"),
                                           "get", VerbsRole) >>

\* C21 witness: the wildcard API group with a resource kind of the table.
C21_Witness ==
    /\ mapCall.done
    /\ mapCall.apiGroup = "*"
    /\ mapCall.resource = "pods"
    /\ mapReturn = NoMapReturn

\* ------------------------------------------ permission edges: more claims

\* The namespace context of a call: the Role's namespace, none for a
\* ClusterRole.
NamespaceContext(call) ==
    IF call.builder = "role" THEN RoleNamespaceOf(call) ELSE ""

\* The object key C22 gives a named target.
NamedKey(type, name, ns) ==
    IF isNamespacedType(type) /\ ns # "" THEN ns \o "/" \o name ELSE name

\* C22: a rule with resourceNames has one permission edge per (resource
\* name, effective verb) for each mapped pair, on the object key
\* "<roleNamespace>/<name>" when the target type is namespaced and the role
\* has a namespace, on "<name>" otherwise, and no edge on "*": a Role in
\* namespace a with get on secrets named r1 has the edge get on secret
\* "a/r1" and none on secret "*".
C22_NamedTargets ==
    GrantsAnswered =>
      LET rules == grantsCall.rules
          edges == VerbEdges(grantsReturn.grants)
          ns == NamespaceContext(grantsCall)
          named == {i \in 1..Len(rules) :
                       rules[i].resourceNames # <<>> /\ rules[i].nonResourceURLs = <<>>}
      IN  /\ \A i \in named :
                \A p \in MappedPairs(rules[i]), v \in EffectiveVerbs(rules[i]),
                   n \in Range(rules[i].resourceNames) :
                    LET type == mapKubeResourceToBatonType(p[1], p[2])
                        edge == NewGrant(formatResourceID(type, NamedKey(type, n, ns)),
                                         v, grantsCall.resource)
                    IN  Cardinality({k \in 1..Len(edges) : edges[k] = edge}) = 1
          /\ (named = 1..Len(rules)) =>
                \A k \in 1..Len(edges) :
                    /\ edges[k].resource.id # "*"
                    /\ \E i \in named :
                          \E p \in MappedPairs(rules[i]), n \in Range(rules[i].resourceNames) :
                              LET type == mapKubeResourceToBatonType(p[1], p[2])
                              IN  /\ edges[k].resource
                                       = formatResourceID(type, NamedKey(type, n, ns))
                                  /\ edges[k].entitlement \in EffectiveVerbs(rules[i])

\* C22 witness: the Role a/r1 whose only rule names r1 and r2 on secrets
\* and namespaces: get on secret "a/r1" and on namespace "r1", none on "*".
C22_Witness ==
    /\ GrantsAnswered
    /\ grantsCall.builder = "role"
    /\ grantsCall.resource.id = "a/r1"
    /\ Len(grantsCall.rules) = 1
    /\ grantsCall.rules[1].resourceNames = <<"r1", "r2">>
    /\ LET edges == VerbEdges(grantsReturn.grants)
       IN  /\ \E k \in 1..Len(edges) :
                 edges[k] = NewGrant(formatResourceID("secret", "a/r1"), "get",
                                     grantsCall.resource)
           /\ \E k \in 1..Len(edges) :
                 edges[k] = NewGrant(formatResourceID("namespace", "r1"), "get",
                                     grantsCall.resource)
           /\ \A k \in 1..Len(edges) : edges[k].resource.id # "*"

\* What the builder of a call returns for the same role with other rules.
GrantsWithRules(call, rules) ==
    IF call.builder = "role"
    THEN roleBuilderGrants([call EXCEPT !.rules = rules])
    ELSE clusterRoleBuilderGrants([call EXCEPT !.rules = rules])

\* C23: a rule with nonResourceURLs has no permission edge, also when it
\* lists apiGroups, resources and verbs, and the rules before and after it
\* have the edges they have without it.
C23_NonResourceRuleSkipped ==
    GrantsAnswered =>
      LET rules == grantsCall.rules
          resourceRules == SelectSeq(rules, LAMBDA r : r.nonResourceURLs = <<>>)
          edges == VerbEdges(grantsReturn.grants)
      IN  /\ edges = VerbEdges(GrantsWithRules(grantsCall, resourceRules).grants)
          /\ (resourceRules = <<>>) => (edges = <<>>)

\* C23 witness: a rule with nonResourceURLs, verbs, an apiGroup and a
\* resource before a rule with edges; only the second rule's edges are
\* returned.
C23_Witness ==
    /\ GrantsAnswered
    /\ Len(grantsCall.rules) = 2
    /\ grantsCall.rules[1].nonResourceURLs # <<>>
    /\ grantsCall.rules[1].verbs # <<>>
    /\ grantsCall.rules[1].resources = <<"pods">>
    /\ grantsCall.rules[2].nonResourceURLs = <<>>
    /\ grantsCall.rules[2].resources = <<"deployments", "statefulsets", "daemonsets">>
    /\ Len(VerbEdges(grantsReturn.grants)) = 6

\* --------------------------------------------- malformed resource ids

\* The resource ids that are not of the form "<namespace>/<name>".
Malformed(resource) ==
    resource = NilResourceId \/ resource.id \in {"r1", "a/b/r1"}

\* C24: roleBuilder.Grants called with a resource id that is not of the
\* form "<namespace>/<name>" returns an error and no grants and makes no
\* upstream call, neither the Role fetch nor the binding provider's query
\* of the binding cache; a later call with a well-formed id returns what a
\* first call with these inputs returns.
C24_MalformedIdFailsAlone ==
    (grantsCall.builder \in {"role", "role_bindings_only"}) =>
      /\ Malformed(grantsCall.resource) =>
            /\ grantsReturn = [err |-> TRUE, grants |-> <<>>]
            /\ grantsEffects.upstream = <<>>
      /\ (~Malformed(grantsCall.resource) /\ grantsEffects.earlier > 0) =>
            /\ grantsReturn.err = (grantsCall.fails # "")
            /\ grantsReturn =
                 (IF grantsCall.builder = "role" THEN roleBuilderGrants(grantsCall)
                  ELSE roleBuilderGrantsFromBindings(grantsCall))
            /\ "GetMatchingRoleBindings" \in Range(grantsEffects.upstream)
                 \/ grantsCall.fails = "get"

\* C24 witness: after a call that failed on its resource id, a call for
\* the Role a/r1 returned membership and permission edges.
C24_Witness ==
    /\ grantsCall.builder = "role"
    /\ grantsEffects.earlier = 1
    /\ grantsCall.resource.id = "a/r1"
    /\ ~grantsReturn.err
    /\ MemberEdges(grantsReturn.grants) # <<>>
    /\ VerbEdges(grantsReturn.grants) # <<>>

\* ------------------------------------------------ upstream fetch failures

\* One of the three fetchers runs: the binding-cache load, a paginated
\* enumerator (of at least one upstream object, or of a kind other than
\* node), or an identity builder (of groups, or over a changed upstream).
InitFetch ==
    \/ Init
    \/ InitList /\ ~ListIdle
    \/ InitIdent /\ ~IdentIdle

NextFetch ==
    \/ ListIdle /\ IdentIdle /\ Next
    \/ ~ListIdle /\ NextList
    \/ ~IdentIdle /\ NextIdent

SpecFetch == InitFetch /\ [][NextFetch]_vars

\* The upstream list calls made so far, failed ones included.
UpstreamListCalls == lastCall.n + listUpCalls + idUpCalls

\* C25: a List call whose upstream list fails returns an error with no
\* objects and an empty next-page token after exactly one upstream call,
\* and a failed page fetch of the binding-cache load ends the load with an
\* error after that one call.
C25_FailedFetchSurfacedAtOnce ==
    [][ /\ (Len(listLog') > Len(listLog) /\ listLog'[Len(listLog')].err) =>
             /\ listLog'[Len(listLog')].objects = <<>>
             /\ listLog'[Len(listLog')].next = <<>>
             /\ UpstreamListCalls' = UpstreamListCalls + 1
        /\ (Len(idLog') > Len(idLog) /\ idLog'[Len(idLog')].err) =>
             /\ idLog'[Len(idLog')].objects = <<>>
             /\ idLog'[Len(idLog')].next = <<>>
             /\ UpstreamListCalls' = UpstreamListCalls + 1
        /\ (lastCall'.n # lastCall.n /\ ~lastCall'.ok) =>
             /\ lastReturn'.err
             /\ UpstreamListCalls' = UpstreamListCalls + 1
             /\ \A c \in Callers : ~Loading(c)'
      ]_vars

\* C25 witness: the second page of a secret listing failed after the first
\* page had returned its objects.
C25_Witness ==
    /\ listKind = "secret"
    /\ Len(listLog) = 2
    /\ ~listLog[1].err /\ listLog[1].objects # <<>>
    /\ listLog[2].err
    /\ listLog[2].sent # NoCursor
    /\ listUpCalls = 2

\* C26: the membership edges built by GrantRoleToSubject carry the
\* principal of the resolve contract whenever the subject resolves: a
\* ServiceAccount without namespace in a RoleBinding of namespace a is
\* attributed to "a/<name>", and User and Group names are used verbatim and
\* not rejected, names with "system:" included.
C26_GrantRoleToSubjectResolvesAlike ==
    (grantsCall.builder \in {"role_bindings_only", "cluster_role_scoped"}
       /\ ~grantsReturn.err) =>
      LET m == MatchingOf(grantsCall)
      IN  \A p \in ResolvingPairs(grantsCall) :
              \E k \in 1..Len(grantsReturn.grants) :
                  grantsReturn.grants[k].principal =
                      PrincipalOf(m[p[1]].subjects[p[2]], m[p[1]].ns)

\* C27: a kubeGroupBuilder.List (or kubeUserBuilder.List) call that returns
\* an error leaves the instance's seen-set as it was before the call, so
\* that the retry with the same page token still emits the built-in groups.
C27_FailedListKeepsSeenSet ==
    [][(Len(idLog') = Len(idLog) + 1 /\ idLog'[Len(idLog')].err) =>
          (groupCache' = groupCache /\ userCache' = userCache)]_vars

\* C28: at no time are two bulk loads of the binding cache in progress, no
\* query scans the cache slices while a load is in progress, and every
\* upstream binding list call of loadBindingsCaches is made with the write
\* lock held, also after an earlier load failed and the waiting callers
\* retry the load one after another.
C28_LoadsExcludeEachOtherAndScans ==
    /\ [](/\ Cardinality({c \in Callers : Loading(c)}) <= 1
          /\ \A c \in Callers :
               Loading(c) =>
                 /\ bindingsMutex.w
                 /\ bindingsMutex.r = 0
                 /\ \A d \in Callers : callers[d].pc # "scan")
    /\ [][lastCall'.n # lastCall.n => bindingsMutex.w]_vars

\* C28 witness: after a failed load a caller is loading again, has made
\* upstream calls of its own, and another caller waits for the write lock.
C28_Witness ==
    /\ upErrors > 0
    /\ lastCall.ok
    /\ \E c, d \in Callers :
         /\ c # d
         /\ callers[c].pc = "fetchCRB"
         /\ callers[d].pc = "lock"

\* ------------------------------------------------ scoped membership edges

\* C30: in the scoped ClusterRole Grants a grant has the cluster-wide
\* entitlement "all:member" only when a matching ClusterRoleBinding grants
\* it; a membership through a RoleBinding of any namespace has another
\* entitlement.
C30_NamespacedNeverClusterWide ==
    (grantsCall.builder = "cluster_role_scoped" /\ ~grantsReturn.err) =>
      \A k \in 1..Len(grantsReturn.grants) :
          grantsReturn.grants[k].entitlement = "all:member" =>
            \E i \in 1..Len(grantsCall.clusterRoleBindings) :
                \E j \in 1..Len(grantsCall.clusterRoleBindings[i].subjects) :
                    LET subj == grantsCall.clusterRoleBindings[i].subjects[j]
                    IN  grantsReturn.grants[k].principal.id
                          \in {subj.name, subj.namespace \o "/" \o subj.name}

\* ------------------------------------- concurrent calls of an identity List

\* The position of a goroutine after one name is dealt with.
NextName(todo) == IF Len(todo) > 1 THEN "rlock" ELSE "return"

\* A goroutine enters kubeUserBuilder.List / kubeGroupBuilder.List
\* (kubeuser.go:34-68, part_004:34-80).  The names it will hand to
\* processUser / processGroup are the built-in groups (Group only, before
\* the page token is parsed) and then the subjects of the upstream page,
\* unless the upstream list fails.
ListEnter(g) ==
    /\ goroutines[g].pc = "idle"
    /\ \E token \in HostTokens, version \in 0..MaxIdVersion, fails \in BOOLEAN :
        LET pageState == BagPageToken(ParsePageToken(token))
            phase     == PhaseOf(pageState)
            resp      == UpList(phase, version, ContinueOf(pageState))
            first     == IF procKind = "Group" THEN builtInGroups ELSE <<>>
            names     == IF phase = "none" \/ fails THEN <<>>
                         ELSE SubjectNames(resp.items, procKind)
            todo      == first \o names
        IN  /\ fails => phase # "none"
            /\ goroutines' = [goroutines EXCEPT ![g] =
                   [pc |-> IF todo = <<>> THEN "return" ELSE "rlock",
                    todo |-> todo, fails |-> fails, rv |-> <<>>,
                    returned |-> <<>>]]
    /\ UNCHANGED <<procKind, procCache, procCacheLock>>
    /\ UNCHANGED otherThanProcess

\* processUser / processGroup, RLock: kubeuser.go:140, part_004:150.
ProcessRLock(g) ==
    /\ goroutines[g].pc = "rlock"
    /\ ~procCacheLock.w
    /\ procCacheLock' = [procCacheLock EXCEPT !.r = @ + 1]
    /\ goroutines' = [goroutines EXCEPT ![g].pc = "read"]
    /\ UNCHANGED <<procKind, procCache>>
    /\ UNCHANGED otherThanProcess

\* The read of the seen-set, RUnlock and the early return when the name was
\* processed: kubeuser.go:141-146, part_004:151-156.
ProcessRead(g) ==
    /\ goroutines[g].pc = "read"
    /\ procCacheLock' = [procCacheLock EXCEPT !.r = @ - 1]
    /\ goroutines' = [goroutines EXCEPT
           ![g].pc = IF Processed(procCache, Head(goroutines[g].todo))
                     THEN NextName(goroutines[g].todo) ELSE "lock",
           ![g].todo = IF Processed(procCache, Head(goroutines[g].todo))
                       THEN Tail(@) ELSE @]
    /\ UNCHANGED <<procKind, procCache>>
    /\ UNCHANGED otherThanProcess

\* Lock: kubeuser.go:149, part_004:159.
ProcessLock(g) ==
    /\ goroutines[g].pc = "lock"
    /\ ~procCacheLock.w
    /\ procCacheLock.r = 0
    /\ procCacheLock' = [procCacheLock EXCEPT !.w = TRUE]
    /\ goroutines' = [goroutines EXCEPT ![g].pc = "mark"]
    /\ UNCHANGED <<procKind, procCache>>
    /\ UNCHANGED otherThanProcess

\* The mark, Unlock and the append to the caller's rv: kubeuser.go:150-160,
\* part_004:160-170.
ProcessMark(g) ==
    /\ goroutines[g].pc = "mark"
    /\ procCache' = procCache \cup {Head(goroutines[g].todo)}
    /\ procCacheLock' = [procCacheLock EXCEPT !.w = FALSE]
    /\ goroutines' = [goroutines EXCEPT
           ![g].pc = NextName(goroutines[g].todo),
           ![g].todo = Tail(@),
           ![g].rv = Append(@, IdentityResource(procKind, Head(goroutines[g].todo)))]
    /\ UNCHANGED procKind
    /\ UNCHANGED otherThanProcess

\* List returns rv, or nil with the error of the upstream list:
\* kubeuser.go:65-67, 87, 132; part_004:77-79, 97, 142.
ListLeave(g) ==
    /\ goroutines[g].pc = "return"
    /\ goroutines' = [goroutines EXCEPT
           ![g].pc = "done",
           ![g].returned = IF goroutines[g].fails THEN <<>> ELSE goroutines[g].rv,
           ![g].rv = <<>>]
    /\ UNCHANGED <<procKind, procCache, procCacheLock>>
    /\ UNCHANGED otherThanProcess

\* A fresh builder of either kind, no goroutine in List yet.
InitProcess ==
    /\ CacheInit
    /\ ListIdle
    /\ IdentIdle
    /\ VerbsIdle
    /\ SubjectIdle
    /\ GrantsIdle
    /\ MapIdle
    /\ procKind \in {"User", "Group"}
    /\ procCache = {}
    /\ procCacheLock = [w |-> FALSE, r |-> 0]
    /\ goroutines = [g \in Goroutines |-> IdleGoroutine]

NextProcess ==
    \/ \E g \in Goroutines : ListEnter(g)
    \/ \E g \in Goroutines : ProcessRLock(g)
    \/ \E g \in Goroutines : ProcessRead(g)
    \/ \E g \in Goroutines : ProcessLock(g)
    \/ \E g \in Goroutines : ProcessMark(g)
    \/ \E g \in Goroutines : ListLeave(g)

SpecProcess == InitProcess /\ [][NextProcess]_vars

\* The names of the resources a List call returned.
EmittedBy(g) ==
    {goroutines[g].returned[i].id : i \in 1..Len(goroutines[g].returned)}

\* C29: when two List calls run concurrently on one kubeUserBuilder or
\* kubeGroupBuilder instance and both encounter the same identity name, the
\* name is emitted by at most one of them.
C29_NameEmittedByOneCall ==
    \A g, h \in Goroutines :
        g # h => EmittedBy(g) \cap EmittedBy(h) = {}

====
